---- MODULE Spec2Model ----
(***************************************************************************)
(* Serena marketing co-pilot: the pipeline wrappers of app/services, the   *)
(* live websocket pumps and the artifact endpoint of app/main.py.          *)
(*                                                                         *)
(* Three specifications share the variables:                               *)
(*   SpecPipeline  one wrapper invocation, every stage outcome             *)
(*   SpecRuns      NumRuns concurrent wrapper invocations + the endpoint   *)
(*   SpecConn      one websocket connection: handler and the two pumps     *)
(***************************************************************************)
EXTENDS Integers, Sequences, FiniteSets, TLC

VARIABLES
    sessions,      \* the _session_service of each wrapper module: <<app, user, sid>> -> state
    artifacts,     \* the shared _artifact_service: <<app, user, sid, filename>> -> Part
    nextUuid,      \* number of uuid.uuid4() values drawn so far
    run,           \* run[r]: one wrapper invocation (a coroutine and its locals)
    created,       \* history: session ids passed to create_session, in call order
    writers,       \* history: <<app, sid, key, r>> for every state key invocation r wrote
    http,          \* the last response of GET /artifacts/{app}/{session}/{filename}
    handler,       \* websocket_endpoint: its position and locals
    a2c,           \* the agent_to_client_messaging task
    c2a,           \* the client_to_agent_messaging task
    wsock,         \* the websocket: the code it was closed with (0: not by the handler)
    queue,         \* the connection's LiveRequestQueue
    live,          \* concurrent websocket connections: their sessions, queues and frames
    supSessions,   \* main.py's session_service: the supervisor sessions
    turn,          \* run_root_agent: the turns of one chat session and its artifacts
    t2s            \* TextToSqlAgent: one invocation of the refinement loop

pipeVars == <<sessions, artifacts, nextUuid, run, created, writers, http>>
connVars == <<handler, a2c, c2a, wsock, queue>>
auxVars == <<live, supSessions, turn, t2s>>
vars == <<sessions, artifacts, nextUuid, run, created, writers, http,
          handler, a2c, c2a, wsock, queue, live, supSessions, turn, t2s>>

-----------------------------------------------------------------------------
(* Python values *)

None == "<None>"
EmptyList == "<[]>"

\* Python truthiness of the values the model uses: None, "" and [] are falsy.
Falsy(v) == v \in {None, "", EmptyList}

\* dict.get(key): the value, or None for a missing key.
Get(d, k) == IF k \in DOMAIN d THEN d[k] ELSE None

\* The mutant of OrDefault: the value is passed through without a default.
OrDefault_NoDefault(v, d) == v

\* `v or d`, as in `understanding_output or "Not generated."`.
OrDefault(v, d) == IF Falsy(v) THEN d ELSE v

\* dict.update: the entries of e win over those of d.
Update(d, e) == e @@ d

EmptyDict == [k \in {} |-> None]

-----------------------------------------------------------------------------
(* Bounds *)

NumRuns == 2          \* concurrent wrapper invocations in SpecRuns
MaxEvents == 2        \* live events the outbound pump receives per connection
MaxFrames == 2        \* client frames the inbound pump receives per connection

-----------------------------------------------------------------------------
(* The pipeline wrappers: app/services/*/agent.py *)

Runs == 1..NumRuns

SQL == "execute_sql_pipeline"
VIS == "execute_visualization_pipeline"
POSTER == "call_poster_agent"
CHAT == "call_chat_agent"
EMAIL == "call_email_agent"
Wrappers == {SQL, VIS, POSTER, CHAT, EMAIL}

\* APP_NAME of each wrapper's module; every module uses USER_ID "dev_user_01".
APP_NAME(w) ==
    CASE w = SQL -> "sql_pipeline_app"
      [] w = VIS -> "visualization_app"
      [] w = POSTER -> "poster_app"
      [] w = CHAT -> "greeting_app"
      [] w = EMAIL -> "email_app"

USER_ID == "dev_user_01"

\* The output_key of each sub-agent, in sub_agents order.
OutputKeys(w) ==
    CASE w = SQL -> <<"query_understanding_output", "query_generation_output",
                      "query_review_rewrite_output", "query_execution_output">>
      [] w = VIS -> <<"chart_type_output", "plotly_code_output", "execution_summary">>
      [] w = POSTER -> <<"image_generation_summary">>
      [] w = CHAT -> <<"greeting_response">>
      [] w = EMAIL -> <<"email_agent_response">>

\* The {placeholders} of each sub-agent's instruction, in sub_agents order.
Placeholders(w) ==
    CASE w = SQL -> << {"bigquery_metadata"},
                       {"query_understanding_output", "PROJECT", "BQ_LOCATION", "DATASET",
                        "bigquery_metadata"},
                       {"query_understanding_output", "query_generation_output", "PROJECT",
                        "BQ_LOCATION", "DATASET", "bigquery_metadata"},
                       {"query_review_rewrite_output"} >>
      [] w = VIS -> << {"user_query", "query_execution_output"},
                       {"chart_type_output", "query_execution_output"},
                       {"plotly_code_output"} >>
      [] OTHER -> << {} >>

\* load_dotenv(); if not os.getenv("GOOGLE_API_KEY"): only these two wrappers check.
ChecksApiKey(w) == w \in {SQL, VIS}

\* The filename each wrapper tries to load after the run.
ArtifactFile(w) == IF w = VIS THEN "plot.png" ELSE "generated_image.png"
ChecksArtifact(w) == w \in {VIS, POSTER}

\* The sub-agent (by position) whose tool saves the artifact.
SavingStage(w) == IF w = VIS THEN 3 ELSE IF w = POSTER THEN 1 ELSE 0

Queries == {"how many users are there?"}
DataSets == {"rows", EmptyList}
Images == {<<137>>, <<137, 80>>}

\* The text a sub-agent's final response carries for its output key.
StageText(key) == "text of " \o key

\* The outcomes of one sub-agent: its final response has text, has empty text, has
\* no content (the output key is not written), is an error response (error_code
\* set, no content: the output key is not written), or the model call raises.
StageOutcomes == {"text", "empty", "none", "error", "raise"}

\* The mutant of Uuid4: every invocation gets the same session id.
Uuid4_Fixed(n) == "uuid-0"

\* str(uuid.uuid4()): the n-th value drawn; distinct draws give distinct strings.
Uuid4(n) == "uuid-" \o ToString(n)

SessionKey(w, sid) == <<APP_NAME(w), USER_ID, sid>>
\* The mutant of ArtifactKey: artifacts are not kept per session.
ArtifactKey_NoSession(app, user, sid, filename) == <<app, user, "", filename>>

\* The key of an artifact in the artifact service.
ArtifactKey(app, user, sid, filename) == <<app, user, sid, filename>>

\* initial_state of execute_visualization_pipeline; the other wrappers pass none.
InitialState(w, query, data) ==
    IF w = VIS
    THEN ("query_execution_output" :> data) @@ ("user_query" :> query)
    ELSE EmptyDict

\* initialize_state_var: the keys the before_agent_callback writes.
CallbackState ==
    ("PROJECT" :> "hackathon-agents") @@ ("BQ_LOCATION" :> "us-central1")
    @@ ("DATASET" :> "StyleHub") @@ ("bigquery_metadata" :> "Table 'users': ...")

\* order: the sub-agents that ran, in order; events / errors: the events of the run
\* the wrapper's `async for` consumed, and how many of them were error events.
IdleRun ==
    [pc |-> "idle", w |-> "", sid |-> "", stage |-> 0, query |-> "", data |-> "",
     skip |-> FALSE, wrote |-> EmptyDict, tool |-> "", saved |-> FALSE, image |-> <<>>,
     result |-> EmptyDict, order |-> <<>>, events |-> 0, errors |-> 0]

ErrorResult(msg) == ("error" :> msg)

\* except Exception as e: the dict each wrapper returns from its handler.
ExceptResult(w, msg) ==
    IF w \in {CHAT, EMAIL}
    THEN ("error" :> msg) @@ ("response" :> "Agent execution failed.")
    ELSE ErrorResult(msg)

\* InMemoryArtifactService.load_artifact: the stored Part, or nothing.
LoadArtifact(store, app, user, sid, filename) ==
    IF ArtifactKey(app, user, sid, filename) \in DOMAIN store
    THEN [found |-> TRUE,
          data |-> store[ArtifactKey(app, user, sid, filename)].data,
          mime_type |-> store[ArtifactKey(app, user, sid, filename)].mime_type]
    ELSE [found |-> FALSE, data |-> <<>>, mime_type |-> ""]

\* tool_context.save_artifact(filename, Part.from_bytes(data, 'image/png')):
\* saved under the running invocation's (app, user, session); last write wins.
SaveArtifact(store, app, user, sid, filename, bytes) ==
    (ArtifactKey(app, user, sid, filename) :> [data |-> bytes, mime_type |-> "image/png"])
    @@ store

PlotlyFaults == {"ok", "exec_raises", "no_fig", "render_fails", "save_fails"}

\* The mutant of execute_plotly_code_and_get_image_bytes: 'success' is returned
\* whether or not the figure was rendered and saved.
execute_plotly_code_Optimistic(st, fault) ==
    [status |-> "success",
     saves |-> ~Falsy(Get(st, "query_execution_output")) /\ fault = "ok"]

\* The tool of plotly_code_executor_agent: 'success' after saving plot.png, 'error'
\* (never an exception) when the data is missing or empty or any step raises.
execute_plotly_code_and_get_image_bytes(st, fault) ==
    IF Falsy(Get(st, "query_execution_output"))
    THEN [status |-> "error", saves |-> FALSE]
    ELSE IF fault # "ok"
    THEN [status |-> "error", saves |-> FALSE]
    ELSE [status |-> "success", saves |-> TRUE]

ImageFaults == {"ok", "no_images", "raises"}

\* The tool of poster_generator_agent.
generate_image(fault) ==
    CASE fault = "no_images" -> [status |-> "failed", saves |-> FALSE]
      [] fault = "raises" -> [status |-> "error", saves |-> FALSE]
      [] OTHER -> [status |-> "success", saves |-> TRUE]

\* The mutant of execute_query: a failing query raises out of the tool.
execute_query_Raises(fault) ==
    IF fault = "ok" THEN [status |-> "success", saves |-> FALSE]
    ELSE [status |-> "raised", saves |-> FALSE]

\* BigQueryReader.execute_query: the rows, or {"error": ...} when the query raises.
execute_query(fault) ==
    IF fault = "ok" THEN [status |-> "success", saves |-> FALSE]
    ELSE [status |-> "error", saves |-> FALSE]

\* The sub-agent (by position) that has a tool of this repository.
ToolStage(w) == IF w = SQL THEN 4 ELSE SavingStage(w)

\* What the sub-agent's tool does in session state st.
ToolCall(w, st, fault) ==
    CASE w = VIS -> execute_plotly_code_and_get_image_bytes(st, fault)
      [] w = SQL -> execute_query(fault)
      [] OTHER -> generate_image(IF fault \in ImageFaults THEN fault ELSE "raises")

\* The mutant of NextStage: the first sub-agent is run again after it has ended.
NextStage_Repeats(done) == IF done = 1 THEN 1 ELSE done + 1

\* SequentialAgent: `for sub_agent in self.sub_agents`, after `done` of them ran.
NextStage(done) == done + 1

\* The mutant of AfterStage: the wrapper reads back after the first sub-agent.
AfterStage_ReadsEarly(w, i) == "readback"

\* The `async for` of the wrapper goes on until the last sub-agent's last event.
AfterStage(w, i) == IF i >= Len(OutputKeys(w)) THEN "readback" ELSE "stage"

\* inject_session_state: the {placeholders} of sub-agent i that state st lacks; a
\* missing one makes the run raise KeyError.
MissingPlaceholders(w, i, st) == Placeholders(w)[i] \ DOMAIN st

\* The events one sub-agent adds to the run: its tool's call and response, if the
\* model calls the tool, and its final response.
StageEvents(called) == IF called THEN 3 ELSE 1

\* The mutant of ArtifactReport: the artifact is reported from the sub-agent's
\* text output instead of from a load of the store.
ArtifactReport_TrustsText(w, sid, st, store) ==
    LET claimed == ~Falsy(Get(st, OutputKeys(w)[SavingStage(w)]))
    IN  ("artifact_saved" :> (IF claimed THEN ArtifactFile(w) ELSE "No"))
        @@ ("artifact_size_bytes" :> 0)

\* "Verify the artifact was saved": final_artifact = load_artifact(this run's
\* session, filename), and the two result entries computed from it.
ArtifactReport(w, sid, st, store) ==
    LET final_artifact == LoadArtifact(store, APP_NAME(w), USER_ID, sid, ArtifactFile(w))
    IN  ("artifact_saved" :> (IF final_artifact.found THEN ArtifactFile(w) ELSE "No"))
        @@ ("artifact_size_bytes" :>
              (IF final_artifact.found THEN Len(final_artifact.data) ELSE 0))

\* The dict each wrapper returns after draining the run: the read-back of the
\* output keys and, for the two artifact wrappers, the load of the artifact.
NormalResult(w, sid, query, st, store) ==
    LET saved == ArtifactReport(w, sid, st, store)
    IN  CASE w = SQL ->
               ("user_query" :> query)
               @@ ("understanding" :>
                     OrDefault(Get(st, "query_understanding_output"), "Not generated."))
               @@ ("generated_sql" :>
                     OrDefault(Get(st, "query_generation_output"), "Not generated."))
               @@ ("reviewed_sql" :>
                     OrDefault(Get(st, "query_review_rewrite_output"), "Not generated."))
               @@ ("execution_result" :>
                     OrDefault(Get(st, "query_execution_output"), "Not executed."))
          [] w = VIS ->
               ("session_id" :> sid)
               @@ ("chart_type_info" :>
                     OrDefault(Get(st, "chart_type_output"), "Not generated."))
               @@ ("generated_plotly_code" :>
                     OrDefault(Get(st, "plotly_code_output"), "Not generated."))
               @@ ("execution_summary" :>
                     OrDefault(Get(st, "execution_summary"), "Not executed."))
               @@ saved
          [] w = POSTER ->
               ("session_id" :> sid) @@ ("app_name" :> APP_NAME(w)) @@ saved
          [] w = CHAT ->
               ("response" :>
                     OrDefault(Get(st, "greeting_response"), "No response was generated."))
          [] w = EMAIL ->
               ("response" :>
                     OrDefault(Get(st, "email_agent_response"),
                               "No confirmation response was generated."))

\* The wrapper is called (run[r] is the r-th call to start): skip_summarization
\* (visualization only), then the GOOGLE_API_KEY check of the two wrappers that make it.
Invoke(r, w, datasets) ==
    /\ run[r].pc = "idle"
    /\ r > 1 => run[r - 1].pc # "idle"
    /\ \E query \in Queries, data \in datasets, apiKey \in BOOLEAN :
          /\ w # VIS => data = "rows"
          /\ ~ChecksApiKey(w) => apiKey
          /\ run' = [run EXCEPT ![r] =
                [IdleRun EXCEPT
                    !.w = w, !.query = query, !.data = data, !.skip = (w = VIS),
                    !.pc = IF apiKey THEN "create" ELSE "returned",
                    !.result = IF apiKey THEN EmptyDict
                               ELSE ErrorResult("GOOGLE_API_KEY environment variable not found.")]]
    /\ UNCHANGED <<sessions, artifacts, nextUuid, created, writers, http>>
    /\ UNCHANGED <<connVars, auxVars>>

\* current_session_id = str(uuid.uuid4()); await _session_service.create_session(...)
CreateSession(r) ==
    /\ run[r].pc = "create"
    /\ LET w == run[r].w
           sid == Uuid4(nextUuid + 1)
           st == InitialState(w, run[r].query, run[r].data)
       IN  /\ nextUuid' = nextUuid + 1
           /\ sessions' = (SessionKey(w, sid) :> st) @@ sessions
           /\ created' = Append(created, sid)
           /\ writers' = {x \in writers : ~(x[1] = APP_NAME(w) /\ x[2] = sid)}
                         \cup {<<APP_NAME(w), sid, k, r>> : k \in DOMAIN st}
           /\ run' = [run EXCEPT ![r].sid = sid,
                                 ![r].pc = IF w = SQL THEN "callback" ELSE "stage"]
    /\ UNCHANGED <<artifacts, http>>
    /\ UNCHANGED <<connVars, auxVars>>

\* before_agent_callback=initialize_state_var of the SQL pipeline; the metadata
\* file may be missing, and then the run raises FileNotFoundError.
initialize_state_var(r) ==
    /\ run[r].pc = "callback"
    /\ LET key == SessionKey(run[r].w, run[r].sid)
       IN  \E fileExists \in BOOLEAN :
             IF fileExists
             THEN /\ sessions' = [sessions EXCEPT ![key] = Update(@, CallbackState)]
                  /\ writers' = writers \cup
                        {<<key[1], key[3], k, r>> : k \in DOMAIN CallbackState}
                  /\ run' = [run EXCEPT ![r].pc = "stage"]
             ELSE /\ run' = [run EXCEPT ![r].pc = "returned",
                                        ![r].result = ExceptResult(run[r].w, "Metadata JSON file not found")]
                  /\ UNCHANGED <<sessions, writers>>
    /\ UNCHANGED <<artifacts, nextUuid, created, http>>
    /\ UNCHANGED <<connVars, auxVars>>

\* One sub-agent of the SequentialAgent runs: its instruction is filled in from the
\* session state, its tool runs (if it has one and the model calls it), then its
\* final response is saved under its output_key; the wrapper consumes its events.
RunStage(r, outcomes, calls, images) ==
    /\ run[r].pc = "stage"
    /\ LET w == run[r].w
           i == NextStage(run[r].stage)
           key == SessionKey(w, run[r].sid)
           k == OutputKeys(w)[i]
           missing == MissingPlaceholders(w, i, sessions[key])
       IN  \E out \in outcomes,
              called \in (IF i = ToolStage(w) /\ missing = {} THEN calls ELSE {FALSE}),
              fault \in PlotlyFaults, img \in images :
             LET tool == IF called /\ i = ToolStage(w)
                         THEN ToolCall(w, sessions[key], fault)
                         ELSE [status |-> "", saves |-> FALSE]
                 value == IF out = "text" THEN StageText(k) ELSE ""
                 written == out \in {"text", "empty"}
                 raises == out = "raise" \/ tool.status = "raised"
             IN  /\ i # ToolStage(w) => ~called
                 /\ missing # {} => (out = "raise" /\ ~called)
                 /\ ~tool.saves => img = CHOOSE x \in images : TRUE
                 /\ ~called => fault = "ok"
                 /\ w = SQL => fault \in {"ok", "exec_raises"}
                 /\ artifacts' = IF tool.saves
                                 THEN SaveArtifact(artifacts, APP_NAME(w), USER_ID,
                                                   run[r].sid, ArtifactFile(w), img)
                                 ELSE artifacts
                 /\ IF raises
                    THEN /\ run' = [run EXCEPT
                                ![r].pc = "returned",
                                ![r].tool = tool.status,
                                ![r].saved = @ \/ tool.saves,
                                ![r].image = IF tool.saves THEN img ELSE @,
                                ![r].result =
                                    ExceptResult(w, IF missing # {}
                                                    THEN "Context variable not found"
                                                    ELSE IF tool.status = "raised"
                                                    THEN "tool call failed"
                                                    ELSE "model call failed")]
                         /\ UNCHANGED <<sessions, writers>>
                    ELSE /\ sessions' = IF written
                                        THEN [sessions EXCEPT ![key] = Update(@, (k :> value))]
                                        ELSE sessions
                         /\ writers' = IF written THEN writers \cup {<<key[1], key[3], k, r>>}
                                       ELSE writers
                         /\ run' = [run EXCEPT
                                ![r].stage = i,
                                ![r].order = Append(@, i),
                                ![r].events = @ + StageEvents(called),
                                ![r].errors = IF out = "error" THEN @ + 1 ELSE @,
                                ![r].tool = tool.status,
                                ![r].saved = @ \/ tool.saves,
                                ![r].image = IF tool.saves THEN img ELSE @,
                                ![r].wrote = IF written THEN Update(@, (k :> value)) ELSE @,
                                ![r].pc = AfterStage(w, i)]
    /\ UNCHANGED <<nextUuid, created, http>>
    /\ UNCHANGED <<connVars, auxVars>>

\* The run is drained: get_session, the output keys read back, the artifact loaded,
\* and the result returned to the caller.
ReadBack(r) ==
    /\ run[r].pc = "readback"
    /\ LET w == run[r].w
           st == sessions[SessionKey(w, run[r].sid)]
       IN  run' = [run EXCEPT
                ![r].pc = "returned",
                ![r].result = NormalResult(w, run[r].sid, run[r].query, st, artifacts)]
    /\ UNCHANGED <<sessions, artifacts, nextUuid, created, writers, http>>
    /\ UNCHANGED <<connVars, auxVars>>

-----------------------------------------------------------------------------
(* GET /artifacts/{app_name}/{session_id}/{filename}: app/main.py *)

\* USER_ID_MAP: VIS_USER_ID and POSTER_USER_ID are both "dev_user_01".
USER_ID_MAP == ("visualization_app" :> USER_ID) @@ ("poster_app" :> USER_ID)

RequestApps == {"visualization_app", "poster_app", "sql_pipeline_app"}
RequestFiles == {"plot.png", "generated_image.png"}

\* A Response: content is split by type into body (bytes) and text (str).
HttpResponse(status, body, text, media_type) ==
    [status |-> status, body |-> body, text |-> text, media_type |-> media_type]

NoResponse == [status |-> 0, body |-> <<>>, text |-> "", media_type |-> "",
               app |-> "", sid |-> "", filename |-> "", raised |-> FALSE]

\* The mutant of GetArtifactResponse: the session id of the request is ignored and
\* the first stored artifact of (app, user, filename) is served.
GetArtifactResponse_AnySession(store, app, sid, filename, loadRaises) ==
    LET hits == {k \in DOMAIN store : k[1] = app /\ k[4] = filename}
    IN  IF hits = {}
        THEN HttpResponse(404, <<>>, "Artifact not found", "")
        ELSE LET k == CHOOSE x \in hits : TRUE
             IN  HttpResponse(200, store[k].data, "", store[k].mime_type)

\* The body of get_artifact: the Response it returns.
GetArtifactResponse(store, app, sid, filename, loadRaises) ==
    LET user_id == Get(USER_ID_MAP, app)
        artifact == LoadArtifact(store, app, user_id, sid, filename)
    IN  IF Falsy(user_id)
        THEN HttpResponse(404, <<>>, "Artifact app not found", "")
        ELSE IF loadRaises
        THEN HttpResponse(500, <<>>, "Error retrieving artifact", "")
        ELSE IF artifact.found
        THEN HttpResponse(200, artifact.data, "", artifact.mime_type)
        ELSE HttpResponse(404, <<>>, "Artifact not found", "")

get_artifact ==
    /\ \E app \in RequestApps, filename \in RequestFiles, loadRaises \in BOOLEAN,
          sid \in {run[r].sid : r \in Runs} \cup {"uuid-unknown"} :
          /\ sid # ""
          /\ LET resp == GetArtifactResponse(artifacts, app, sid, filename, loadRaises)
             IN  http' = [status |-> resp.status, body |-> resp.body, text |-> resp.text,
                          media_type |-> resp.media_type, app |-> app, sid |-> sid,
                          filename |-> filename, raised |-> loadRaises]
    /\ UNCHANGED <<sessions, artifacts, nextUuid, run, created, writers>>
    /\ UNCHANGED <<connVars, auxVars>>

-----------------------------------------------------------------------------
(* base64, as used by both pumps: app/main.py *)

\* A base64 text is a sequence of sextets 0..63, the pad character B64Pad, and
\* B64Junk for any character outside the alphabet.
B64Pad == 64
B64Junk == 99

\* The mutant of b64encode: the second sextet loses the high bits of the first byte.
b64encode_DropsBits(b) ==
    [i \in 1..(4 * ((Len(b) + 2) \div 3)) |->
        IF i % 4 = 1 THEN b[3 * ((i - 1) \div 4) + 1] \div 4 ELSE 0]

RECURSIVE b64encode(_)
\* base64.b64encode(bytes).decode("ascii")
b64encode(b) ==
    IF Len(b) = 0 THEN <<>>
    ELSE IF Len(b) = 1
    THEN <<b[1] \div 4, (b[1] % 4) * 16, B64Pad, B64Pad>>
    ELSE IF Len(b) = 2
    THEN <<b[1] \div 4, (b[1] % 4) * 16 + (b[2] \div 16), (b[2] % 16) * 4, B64Pad>>
    ELSE <<b[1] \div 4, (b[1] % 4) * 16 + (b[2] \div 16),
           (b[2] % 16) * 4 + (b[3] \div 64), b[3] % 64>>
         \o b64encode(SubSeq(b, 4, Len(b)))

RECURSIVE DecodeQuads(_)
\* The bytes of a padded text whose length is a multiple of four.
DecodeQuads(t) ==
    IF Len(t) = 0 THEN <<>>
    ELSE LET first == IF t[3] = B64Pad
                      THEN <<t[1] * 4 + (t[2] \div 16)>>
                      ELSE IF t[4] = B64Pad
                      THEN <<t[1] * 4 + (t[2] \div 16), (t[2] % 16) * 16 + (t[3] \div 4)>>
                      ELSE <<t[1] * 4 + (t[2] \div 16), (t[2] % 16) * 16 + (t[3] \div 4),
                             (t[3] % 4) * 64 + t[4]>>
         IN  first \o DecodeQuads(SubSeq(t, 5, Len(t)))

IsB64Char(c) == c \in 0..B64Pad

\* base64.b64decode(data): characters outside the alphabet are discarded, and a
\* text that is then not a whole number of quads raises binascii.Error.
b64decode(t) ==
    LET kept == SelectSeq(t, IsB64Char)
    IN  IF Len(kept) % 4 # 0
        THEN [ok |-> FALSE, data |-> <<>>]
        ELSE [ok |-> TRUE, data |-> DecodeQuads(kept)]

-----------------------------------------------------------------------------
(* Live events and the frames of agent_to_client_messaging: app/main.py *)

\* FunctionResponse.response values: a dict, or a str that json.loads decodes to
\* a dict, decodes to something else, or rejects.
DictResponse(d) == [kind |-> "dict", parses |-> TRUE, isdict |-> TRUE, d |-> d]
StrResponse(parses, isdict, d) == [kind |-> "str", parses |-> parses, isdict |-> isdict, d |-> d]

FullArtifactDict ==
    ("session_id" :> "uuid-1") @@ ("app_name" :> "poster_app")
    @@ ("artifact_saved" :> "generated_image.png") @@ ("artifact_size_bytes" :> "2")
NoArtifactDict ==
    ("session_id" :> "uuid-1") @@ ("app_name" :> "poster_app")
    @@ ("artifact_saved" :> "No") @@ ("artifact_size_bytes" :> "0")
\* What execute_visualization_pipeline returns: no app_name entry.
VisualizationDict ==
    ("session_id" :> "uuid-2") @@ ("artifact_saved" :> "plot.png")
    @@ ("artifact_size_bytes" :> "2")
EmptySessionDict ==
    ("session_id" :> "") @@ ("app_name" :> "poster_app")
    @@ ("artifact_saved" :> "generated_image.png")

ResponseValues ==
    {DictResponse(FullArtifactDict), DictResponse(NoArtifactDict),
     DictResponse(VisualizationDict), DictResponse(EmptySessionDict),
     DictResponse(ErrorResult("model call failed")),
     StrResponse(TRUE, TRUE, FullArtifactDict), StrResponse(TRUE, FALSE, EmptyDict),
     StrResponse(FALSE, FALSE, EmptyDict)}

FunctionResponse(name, response) == [name |-> name, response |-> response]
FunctionCall(name, args) == [name |-> name, args |-> args]

\* A types.Part: text (None when absent) and inline_data (mime_type None when absent).
Part(text, mime_type, data) == [text |-> text, mime_type |-> mime_type, data |-> data]
TextPart(text) == Part(text, None, <<>>)
AudioPart(data) == Part(None, "audio/pcm;rate=24000", data)

\* An Event; content None is parts = <<>>.
Event(turn_complete, interrupted, responses, calls, role, parts) ==
    [none |-> FALSE, turn_complete |-> turn_complete, interrupted |-> interrupted,
     responses |-> responses, calls |-> calls, role |-> role, parts |-> parts]

NoEvent == [none |-> TRUE, turn_complete |-> FALSE, interrupted |-> FALSE,
            responses |-> <<>>, calls |-> <<>>, role |-> None, parts |-> <<>>]

AudioBytes == {<<>>, <<1>>, <<77, 97>>, <<77, 97, 110>>, <<255, 0, 170, 16>>}

\* The live events the outbound pump is given.
Events ==
    {NoEvent}
    \cup {Event(tc, it, <<>>, <<>>, None, <<>>) :
            tc \in BOOLEAN, it \in BOOLEAN}
    \cup {Event(TRUE, FALSE, <<FunctionResponse(POSTER, DictResponse(FullArtifactDict))>>,
                <<FunctionCall(CHAT, "{}")>>, "model", <<TextPart("done")>>),
          Event(FALSE, TRUE, <<>>, <<>>, "user", <<TextPart("stop")>>)}
    \cup {Event(FALSE, FALSE, <<FunctionResponse(POSTER, v)>>, <<>>, None, <<>>) :
            v \in ResponseValues}
    \cup {Event(FALSE, FALSE,
                <<FunctionResponse(POSTER, DictResponse(FullArtifactDict)),
                  FunctionResponse(VIS, DictResponse(VisualizationDict)),
                  FunctionResponse(POSTER, StrResponse(TRUE, TRUE, FullArtifactDict))>>,
                <<FunctionCall(EMAIL, "{}")>>, None, <<>>),
          Event(FALSE, FALSE, <<>>,
                <<FunctionCall(SQL, "{'user_query': 'q'}"), FunctionCall(VIS, "{}")>>,
                "model", <<TextPart("calling")>>),
          Event(FALSE, FALSE, <<FunctionResponse(POSTER, DictResponse(FullArtifactDict))>>,
                <<FunctionCall(POSTER, "{}")>>, "model",
                <<Part("look", "audio/pcm", <<77>>), TextPart("done")>>)}
    \cup {Event(FALSE, FALSE, <<>>, <<>>, role, <<TextPart("hello"), TextPart("")>>) :
            role \in {"user", "model", None, "tool"}}
    \cup {Event(FALSE, FALSE, <<>>, <<>>, "model", <<AudioPart(b)>>) : b \in AudioBytes}
    \cup {Event(FALSE, FALSE, <<>>, <<>>, role,
                <<Part("hi", "audio/pcm", <<1>>), Part("there", "image/png", <<1>>)>>) :
            role \in {"user", "model"}}

\* The mutant of IsArtifactResponse: the 'No' sentinel is not excluded.
IsArtifactResponse_IgnoresNo(result_data, isdict) ==
    /\ isdict
    /\ ~Falsy(Get(result_data, "artifact_saved"))
    /\ ~Falsy(Get(result_data, "session_id"))
    /\ ~Falsy(Get(result_data, "app_name"))

\* is_artifact_response: the generic check of a decoded tool response.
IsArtifactResponse(result_data, isdict) ==
    /\ isdict
    /\ ~Falsy(Get(result_data, "artifact_saved"))
    /\ Get(result_data, "artifact_saved") # "No"
    /\ ~Falsy(Get(result_data, "session_id"))
    /\ ~Falsy(Get(result_data, "app_name"))

\* image_url = f"/artifacts/{app_name}/{artifact_session_id}/{artifact_filename}"
ImageUrl(app_name, session_id, filename) ==
    "/artifacts/" \o app_name \o "/" \o session_id \o "/" \o filename

ArtifactMessage(result_data) ==
    [role |-> "model", mime_type |-> "image/png",
     data |-> ImageUrl(result_data["app_name"], result_data["session_id"],
                       result_data["artifact_saved"]),
     caption |-> "Here is the content you requested:"]

\* The frames of one function response: json.loads of a str (a JSONDecodeError is
\* caught and logged), then the artifact frame if the check passes.
ResponseFrames(response) ==
    LET v == response.response
    IN  IF v.kind = "str" /\ ~v.parses THEN <<>>
        ELSE IF IsArtifactResponse(v.d, v.isdict) THEN <<ArtifactMessage(v.d)>>
        ELSE <<>>

\* The mutant of ToolCallMessage: the notice is sent as model text.
ToolCallMessage_AsModel(call) ==
    [mime_type |-> "text/plain",
     data |-> "Tool Call: " \o call.name \o ", Args: " \o call.args,
     role |-> "model"]

\* message = {"mime_type": "text/plain", "data": f"Tool Call: ...", "role": "system"}
ToolCallMessage(call) ==
    [mime_type |-> "text/plain",
     data |-> "Tool Call: " \o call.name \o ", Args: " \o call.args,
     role |-> "system"]

\* The mutant of TextRole: a transcription is sent with the role of the content.
TextRole_KeepsUser(role) ==
    IF role = "user" THEN "user"
    ELSE IF role = "model" \/ role = None THEN "model"
    ELSE None

\* The role of a text frame for event.content.role; None when no frame is sent.
TextRole(role) ==
    IF role = "user" THEN "user_transcription"
    ELSE IF role = "model" \/ role = None THEN "model"
    ELSE None

\* The mutant of StartsWithAudioPcm: the mime type must be exactly audio/pcm.
StartsWithAudioPcm_Exact(mime_type) == mime_type = "audio/pcm"

\* part.inline_data.mime_type.startswith("audio/pcm")
StartsWithAudioPcm(mime_type) == mime_type \in {"audio/pcm", "audio/pcm;rate=24000"}

\* The frames of one content part: the text frame, then the audio frame.
PartFrames(role, part) ==
    LET text == IF ~Falsy(part.text) /\ TextRole(role) # None
                THEN <<[mime_type |-> "text/plain", data |-> part.text,
                        role |-> TextRole(role)]>>
                ELSE <<>>
        audio == IF part.mime_type # None /\ StartsWithAudioPcm(part.mime_type)
                    /\ Len(part.data) > 0
                 THEN <<[mime_type |-> "audio/pcm", data |-> b64encode(part.data),
                         role |-> "model"]>>
                 ELSE <<>>
    IN  text \o audio

RECURSIVE Flatten(_)
Flatten(ss) == IF Len(ss) = 0 THEN <<>> ELSE Head(ss) \o Flatten(Tail(ss))

TurnStatusMessage(event) ==
    [turn_complete |-> event.turn_complete, interrupted |-> event.interrupted]

\* The mutant of IsTurnStatus: only turn_complete is looked at.
IsTurnStatus_OnlyComplete(event) == event.turn_complete

\* if event.turn_complete or event.interrupted
IsTurnStatus(event) == event.turn_complete \/ event.interrupted

\* The mutant of EventFrames: the content parts are handled before the tool
\* results and the tool calls.
EventFrames_PartsFirst(event) ==
    IF event.none THEN <<>>
    ELSE IF IsTurnStatus(event) THEN <<TurnStatusMessage(event)>>
    ELSE Flatten([i \in 1..Len(event.parts) |-> PartFrames(event.role, event.parts[i])])
         \o [i \in 1..Len(event.calls) |-> ToolCallMessage(event.calls[i])]
         \o Flatten([i \in 1..Len(event.responses) |-> ResponseFrames(event.responses[i])])

\* The frames the body of the `async for` sends for one event, in order.
EventFrames(event) ==
    IF event.none THEN <<>>
    ELSE IF IsTurnStatus(event) THEN <<TurnStatusMessage(event)>>
    ELSE Flatten([i \in 1..Len(event.responses) |-> ResponseFrames(event.responses[i])])
         \o [i \in 1..Len(event.calls) |-> ToolCallMessage(event.calls[i])]
         \o Flatten([i \in 1..Len(event.parts) |-> PartFrames(event.role, event.parts[i])])

-----------------------------------------------------------------------------
(* client_to_agent_messaging: app/main.py *)

\* A client message: the JSON text parses or not, the keys it has, and its values;
\* data is the string as text/plain reads it, b64 the same string as base64 text.
ClientFrame(json_ok, keys, mime_type, data, b64, role) ==
    [json_ok |-> json_ok, keys |-> keys, mime_type |-> mime_type, data |-> data,
     b64 |-> b64, role |-> role]

NoFrame == ClientFrame(FALSE, {}, "", "", <<>>, "")

ClientFrames ==
    {ClientFrame(TRUE, {"mime_type", "data"}, "text/plain", "hi", <<>>, ""),
     ClientFrame(TRUE, {"mime_type", "data", "role"}, "text/plain", "note", <<>>, "system"),
     ClientFrame(TRUE, {"mime_type", "data"}, "audio/pcm", "", b64encode(<<77, 97>>), ""),
     ClientFrame(TRUE, {"mime_type", "data"}, "audio/pcm", "", <<19, 22, 5>>, ""),
     ClientFrame(TRUE, {"mime_type", "data"}, "video/mp4", "AAAA", <<0, 0, 0, 0>>, ""),
     ClientFrame(TRUE, {"mime_type", "data", "role"}, "image/png", "", <<>>, "user"),
     ClientFrame(FALSE, {}, "", "", <<>>, ""),
     ClientFrame(TRUE, {"mime_type"}, "text/plain", "", <<>>, ""),
     ClientFrame(TRUE, {"data"}, "", "hi", <<>>, "")}

\* The mutant of ClientFrameRoute: a message that cannot be processed is answered
\* like an unsupported mime type, and the loop goes on.
ClientFrameRoute_Lenient(fr) ==
    IF ~fr.json_ok \/ "mime_type" \notin fr.keys \/ "data" \notin fr.keys THEN "unsupported"
    ELSE IF fr.mime_type = "text/plain" THEN "content"
    ELSE IF fr.mime_type = "audio/pcm" /\ b64decode(fr.b64).ok THEN "realtime"
    ELSE "unsupported"

\* The mutant of ClientFrameRoute: an unsupported mime type raises.
ClientFrameRoute_UnsupportedRaises(fr) ==
    IF ~fr.json_ok \/ "mime_type" \notin fr.keys \/ "data" \notin fr.keys THEN "exception"
    ELSE IF fr.mime_type = "text/plain" THEN "content"
    ELSE IF fr.mime_type = "audio/pcm" /\ b64decode(fr.b64).ok THEN "realtime"
    ELSE "exception"

\* The branch the body of the receive loop takes for one message: json.loads,
\* message["mime_type"], message["data"], then the mime type.
ClientFrameRoute(fr) ==
    IF ~fr.json_ok THEN "exception"
    ELSE IF "mime_type" \notin fr.keys \/ "data" \notin fr.keys THEN "exception"
    ELSE IF fr.mime_type = "text/plain" THEN "content"
    ELSE IF fr.mime_type = "audio/pcm"
    THEN IF b64decode(fr.b64).ok THEN "realtime" ELSE "exception"
    ELSE "unsupported"

\* The mutant of ContentRequest: the role of the frame is ignored.
ContentRequest_AlwaysUser(fr) ==
    [kind |-> "content", role |-> "user", text |-> fr.data, data |-> <<>>, mime_type |-> ""]

\* send_content(types.Content(role=role, parts=[Part.from_text(text=data)]))
ContentRequest(fr) ==
    [kind |-> "content", role |-> IF "role" \in fr.keys THEN fr.role ELSE "user",
     text |-> fr.data, data |-> <<>>, mime_type |-> ""]

\* send_realtime(types.Blob(data=decoded_data, mime_type=mime_type))
RealtimeRequest(fr) ==
    [kind |-> "realtime", role |-> "", text |-> "", data |-> b64decode(fr.b64).data,
     mime_type |-> fr.mime_type]

UnsupportedMessage(fr) ==
    [error |-> "Mime type not supported: " \o fr.mime_type, role |-> "system"]

\* The mutant of OnPumpException: no exception gets an error frame.
OnPumpException_NoErrorFrame(kind) == "done"

\* Where a pump goes when its body raises: a WebSocketDisconnect only ends it; any
\* other Exception is logged and an error frame is attempted before it ends.
OnPumpException(kind) == IF kind = "disconnect" THEN "done" ELSE "errsend"

SendResults == {"ok", "disconnect", "error"}

IdlePump ==
    [pc |-> "off", n |-> 0, cancelReq |-> FALSE, raised |-> "", logged |-> FALSE,
     errFrame |-> "", escaped |-> ""]

IdleA2C == [ev |-> NoEvent, pending |-> <<>>, out |-> <<>>, evdone |-> FALSE] @@ IdlePump
IdleC2A == [fr |-> NoFrame, out |-> <<>>, fwd |-> 0, sendres |-> ""] @@ IdlePump

\* message_json = await websocket.receive_text(), and the body up to its next await.
C2A_ReceiveOf(frames, max) ==
    /\ c2a.pc = "recv" /\ ~c2a.cancelReq /\ c2a.n < max
    /\ \E fr \in frames :
         LET route == ClientFrameRoute(fr)
         IN  /\ queue' = CASE route = "content" -> Append(queue, ContentRequest(fr))
                           [] route = "realtime" -> Append(queue, RealtimeRequest(fr))
                           [] OTHER -> queue
             /\ LET base == [c2a EXCEPT !.fr = fr, !.n = @ + 1, !.out = <<>>,
                                        !.sendres = "", !.fwd = Len(queue') - Len(queue)]
                IN  c2a' = CASE route \in {"content", "realtime"} -> base
                             [] route = "unsupported" -> [base EXCEPT !.pc = "send"]
                             [] OTHER ->
                                  [base EXCEPT !.raised = "error", !.logged = TRUE,
                                               !.pc = OnPumpException("error")]
    /\ UNCHANGED <<handler, a2c, wsock>>
    /\ UNCHANGED <<pipeVars, auxVars>>

\* The same, for any client message and up to MaxFrames messages.
C2A_Receive == C2A_ReceiveOf(ClientFrames, MaxFrames)

\* receive_text raises WebSocketDisconnect: the loop breaks.
C2A_Disconnect ==
    /\ c2a.pc = "recv" /\ ~c2a.cancelReq
    /\ c2a' = [c2a EXCEPT !.raised = "disconnect", !.pc = OnPumpException("disconnect")]
    /\ UNCHANGED <<handler, a2c, wsock, queue>>
    /\ UNCHANGED <<pipeVars, auxVars>>

\* await websocket.send_text(...) of the "Mime type not supported" frame.
C2A_Send ==
    /\ c2a.pc = "send" /\ ~c2a.cancelReq
    /\ \E res \in SendResults :
         c2a' = CASE res = "ok" ->
                       [c2a EXCEPT !.out = Append(@, UnsupportedMessage(c2a.fr)),
                                   !.sendres = res, !.pc = "recv"]
                  [] res = "disconnect" ->
                       [c2a EXCEPT !.raised = "disconnect", !.sendres = res,
                                   !.pc = OnPumpException("disconnect")]
                  [] OTHER ->
                       [c2a EXCEPT !.raised = "error", !.logged = TRUE, !.sendres = res,
                                   !.pc = OnPumpException("error")]
    /\ UNCHANGED <<handler, a2c, wsock, queue>>
    /\ UNCHANGED <<pipeVars, auxVars>>

\* except Exception: the error frame is sent inside try / bare except (which also
\* swallows a cancellation), then the loop breaks.
C2A_ErrSend ==
    /\ c2a.pc = "errsend"
    /\ \E ok \in BOOLEAN :
         c2a' = [c2a EXCEPT !.pc = "done",
                            !.errFrame = IF c2a.cancelReq THEN "cancelled"
                                         ELSE IF ok THEN "sent" ELSE "failed"]
    /\ UNCHANGED <<handler, a2c, wsock, queue>>
    /\ UNCHANGED <<pipeVars, auxVars>>

\* except asyncio.CancelledError: break.
C2A_Cancelled ==
    /\ c2a.pc \in {"recv", "send"} /\ c2a.cancelReq
    /\ c2a' = [c2a EXCEPT !.raised = "cancelled", !.pc = "done",
                           !.sendres = IF c2a.pc = "send" THEN "cancelled" ELSE @]
    /\ UNCHANGED <<handler, a2c, wsock, queue>>
    /\ UNCHANGED <<pipeVars, auxVars>>

-----------------------------------------------------------------------------
(* agent_to_client_messaging: app/main.py *)

\* `async for event in live_events` yields an event; the frames of its body are
\* then sent one by one.
A2C_EventOf(events, max) ==
    /\ a2c.pc = "recv" /\ ~a2c.cancelReq /\ a2c.n < max
    /\ \E ev \in events :
         LET fs == EventFrames(ev)
         IN  a2c' = [a2c EXCEPT !.ev = ev, !.pending = fs, !.out = <<>>, !.n = @ + 1,
                                !.evdone = (fs = <<>>),
                                !.pc = IF fs = <<>> THEN "recv" ELSE "send"]
    /\ UNCHANGED <<handler, c2a, wsock, queue>>
    /\ UNCHANGED <<pipeVars, auxVars>>

\* The same, for any live event and up to MaxEvents events.
A2C_Event == A2C_EventOf(Events, MaxEvents)

\* The live event stream ends, or raises.
A2C_StreamEnds ==
    /\ a2c.pc = "recv" /\ ~a2c.cancelReq
    /\ \E raises \in BOOLEAN :
         a2c' = IF raises
                THEN [a2c EXCEPT !.raised = "error", !.logged = TRUE,
                                 !.pc = OnPumpException("error")]
                ELSE [a2c EXCEPT !.pc = "done"]
    /\ UNCHANGED <<handler, c2a, wsock, queue>>
    /\ UNCHANGED <<pipeVars, auxVars>>

\* await websocket.send_text(json.dumps(message)) of the next frame of the event.
A2C_Send ==
    /\ a2c.pc = "send" /\ ~a2c.cancelReq
    /\ \E res \in SendResults :
         a2c' = CASE res = "ok" ->
                       [a2c EXCEPT !.out = Append(@, Head(a2c.pending)),
                                   !.pending = Tail(@),
                                   !.evdone = (Tail(a2c.pending) = <<>>),
                                   !.pc = IF Tail(a2c.pending) = <<>> THEN "recv" ELSE "send"]
                  [] res = "disconnect" ->
                       [a2c EXCEPT !.raised = "disconnect",
                                   !.pc = OnPumpException("disconnect")]
                  [] OTHER ->
                       [a2c EXCEPT !.raised = "error", !.logged = TRUE,
                                   !.pc = OnPumpException("error")]
    /\ UNCHANGED <<handler, c2a, wsock, queue>>
    /\ UNCHANGED <<pipeVars, auxVars>>

\* except Exception: the error frame is sent inside try / except Exception.
A2C_ErrSend ==
    /\ a2c.pc = "errsend" /\ ~a2c.cancelReq
    /\ \E ok \in BOOLEAN :
         a2c' = [a2c EXCEPT !.pc = "done", !.errFrame = IF ok THEN "sent" ELSE "failed"]
    /\ UNCHANGED <<handler, c2a, wsock, queue>>
    /\ UNCHANGED <<pipeVars, auxVars>>

\* The CancelledError is delivered at the await the task is suspended in: caught
\* by `except asyncio.CancelledError` in the loop, but not inside the handler of
\* `except Exception`, where it leaves the coroutine.
A2C_Cancelled ==
    /\ a2c.pc \in {"recv", "send", "errsend"} /\ a2c.cancelReq
    /\ a2c' = IF a2c.pc = "errsend"
              THEN [a2c EXCEPT !.errFrame = "cancelled", !.escaped = "cancelled",
                               !.pc = "done"]
              ELSE [a2c EXCEPT !.raised = "cancelled", !.pc = "done"]
    /\ UNCHANGED <<handler, c2a, wsock, queue>>
    /\ UNCHANGED <<pipeVars, auxVars>>

-----------------------------------------------------------------------------
(* websocket_endpoint: app/main.py *)

TaskNames == {"a2c", "c2a"}
Task(t) == IF t = "a2c" THEN a2c ELSE c2a
TaskDone(t) == Task(t).pc = "done"

\* The mutant of AfterCancel: the cancelled tasks are not awaited.
AfterCancel_NoGather(pending) == "inspect"

\* if pending: await asyncio.gather(*pending, return_exceptions=True)
AfterCancel(pending) == IF pending # {} THEN "gather" ELSE "inspect"

\* The mutant of CancelRequested: the pending tasks are not cancelled.
CancelRequested_Never(t, pending) == FALSE

\* for task in pending: task.cancel()
CancelRequested(t, pending) == t \in pending

\* start_agent_session, then the two create_task calls; a failure of the session
\* start goes to the handler's `except Exception`.
StartSession ==
    /\ handler.pc = "start"
    /\ \E ok \in BOOLEAN :
         IF ok
         THEN /\ handler' = [handler EXCEPT !.pc = "wait", !.tasks = TaskNames]
              /\ a2c' = [a2c EXCEPT !.pc = "recv"]
              /\ c2a' = [c2a EXCEPT !.pc = "recv"]
         ELSE /\ handler' = [handler EXCEPT !.pc = "except", !.startFailed = TRUE,
                                            !.logged = TRUE]
              /\ UNCHANGED <<a2c, c2a>>
    /\ UNCHANGED <<wsock, queue>>
    /\ UNCHANGED <<pipeVars, auxVars>>

\* asyncio.wait(..., FIRST_COMPLETED) returns; every pending task is cancelled.
HandlerWake ==
    /\ handler.pc = "wait"
    /\ \E t \in TaskNames : TaskDone(t)
    /\ LET done == {t \in TaskNames : TaskDone(t)}
           pending == TaskNames \ done
       IN  /\ handler' = [handler EXCEPT !.done = done, !.pc = AfterCancel(pending)]
           /\ a2c' = [a2c EXCEPT !.cancelReq = CancelRequested("a2c", pending)]
           /\ c2a' = [c2a EXCEPT !.cancelReq = CancelRequested("c2a", pending)]
    /\ UNCHANGED <<wsock, queue>>
    /\ UNCHANGED <<pipeVars, auxVars>>

\* The gather of the cancelled tasks completes when all of them have ended.
HandlerGather ==
    /\ handler.pc = "gather"
    /\ \A t \in TaskNames : TaskDone(t)
    /\ handler' = [handler EXCEPT !.pc = "inspect"]
    /\ UNCHANGED <<a2c, c2a, wsock, queue>>
    /\ UNCHANGED <<pipeVars, auxVars>>

\* for task in done: an exception held by the task is logged; then the finally
\* clause, and the return.
HandlerInspect ==
    /\ handler.pc = "inspect"
    /\ handler' = [handler EXCEPT
            !.pc = "returned",
            !.logged = \E t \in handler.done : Task(t).escaped # ""]
    /\ UNCHANGED <<a2c, c2a, wsock, queue>>
    /\ UNCHANGED <<pipeVars, auxVars>>

\* except Exception: await websocket.close(code=1011); a RuntimeError (already
\* closed) is passed over.
HandlerExcept ==
    /\ handler.pc = "except"
    /\ \E closed \in BOOLEAN :
         wsock' = [wsock EXCEPT !.closeCode = IF closed THEN 1011 ELSE @]
    /\ handler' = [handler EXCEPT !.pc = "returned"]
    /\ UNCHANGED <<a2c, c2a, queue>>
    /\ UNCHANGED <<pipeVars, auxVars>>

-----------------------------------------------------------------------------
(* Concurrent websocket connections: main.py start_agent_session and the
   objects websocket_endpoint hands to its two pump tasks *)

NumConns == 2         \* websocket connections open at the same time
MaxLiveFrames == 1    \* frames each of these connections receives

Conns == 1..NumConns

\* The session_id path parameter is chosen by the client.
SessionIds == {"s1", "s2"}

MAIN_APP_NAME == "Serena Agent"

\* The mutant of SupervisorKey: every connection uses one session.
SupervisorKey_Shared(session_id) == <<MAIN_APP_NAME, "user", "session">>

\* create_session(app_name=APP_NAME, user_id=session_id, session_id=session_id).
SupervisorKey(session_id) == <<MAIN_APP_NAME, session_id, session_id>>

\* The locals of one websocket_endpoint call: the LiveRequestQueue and the
\* live_events stream start_agent_session returned, and the frames of its socket.
IdleLive ==
    [pc |-> "off", sid |-> "", key |-> <<>>, received |-> 0,
     queue |-> <<>>, events |-> <<>>, sent |-> <<>>]

NewSession(c) == [creator |-> c, events |-> <<>>]

\* websocket.accept() and start_agent_session: the session is created in the
\* module's session_service, a LiveRequestQueue is constructed and run_live is
\* called with both.  Creating a session whose id exists either replaces it or
\* raises AlreadyExistsError, by the installed version of the session service.
LiveStart(c, session_id) ==
    /\ live[c].pc = "off"
    /\ \E replaces \in BOOLEAN :
        LET key == SupervisorKey(session_id)
            exists == key \in DOMAIN supSessions
        IN  IF exists /\ ~replaces
            THEN /\ live' = [live EXCEPT ![c].pc = "failed", ![c].sid = session_id]
                 /\ UNCHANGED supSessions
            ELSE /\ supSessions' = (key :> NewSession(c)) @@ supSessions
                 /\ live' = [live EXCEPT ![c] =
                        [IdleLive EXCEPT !.pc = "open", !.sid = session_id, !.key = key]]
    /\ UNCHANGED <<pipeVars, connVars, turn, t2s>>

\* client_to_agent_messaging of connection c: a frame received on its websocket
\* is sent to the live_request_queue it was given.
LiveReceive(c) ==
    /\ live[c].pc = "open"
    /\ live[c].received < MaxLiveFrames
    /\ live' = [live EXCEPT
            ![c].received = @ + 1,
            ![c].queue = Append(@, [conn |-> c, n |-> live[c].received + 1])]
    /\ UNCHANGED <<supSessions, pipeVars, connVars, turn, t2s>>

\* runner.run_live(session, live_request_queue): the runner takes the next
\* request of the queue it was given, appends to the session it was given and
\* yields an event on this call's stream.
LiveAgentStep(c) ==
    /\ live[c].pc = "open"
    /\ live[c].queue # <<>>
    /\ live[c].key \in DOMAIN supSessions
    /\ LET item == Head(live[c].queue)
       IN  /\ supSessions' = [supSessions EXCEPT ![live[c].key].events =
                    Append(@, [by |-> c, item |-> item])]
           /\ live' = [live EXCEPT
                    ![c].queue = Tail(@),
                    ![c].events = Append(@, [stream |-> c, item |-> item])]
    /\ UNCHANGED <<pipeVars, connVars, turn, t2s>>

\* agent_to_client_messaging of connection c: the next event of the live_events
\* it was given becomes a frame on its websocket.
LiveSend(c) ==
    /\ live[c].pc = "open"
    /\ live[c].events # <<>>
    /\ live' = [live EXCEPT
            ![c].events = Tail(@),
            ![c].sent = Append(@, [socket |-> c, event |-> Head(live[c].events)])]
    /\ UNCHANGED <<supSessions, pipeVars, connVars, turn, t2s>>

\* The handler of the connection returns; its queue and stream are dropped.
LiveClose(c) ==
    /\ live[c].pc = "open"
    /\ live' = [live EXCEPT ![c].pc = "closed"]
    /\ UNCHANGED <<supSessions, pipeVars, connVars, turn, t2s>>

-----------------------------------------------------------------------------
(* The chat turns of one session: rough_work_scripts/9_serena_agent_history.py
   run_root_agent *)

MaxTurns == 3         \* chat turns of one session

\* The filenames the tools of the root agent save: generate_image and
\* execute_plotly_code_and_get_image_bytes.
TurnFiles == {"image.png", "plot.png"}

\* new_artifact_keys = all_artifact_keys - existing_artifact_keys
NewArtifactKeys(all_artifact_keys, existing_artifact_keys) ==
    all_artifact_keys \ existing_artifact_keys

\* list_artifact_keys of the session: the filenames that have a version.
ListArtifactKeys(store) == DOMAIN store

\* The loop over new_artifact_keys: load_artifact returns the latest version.
NewlyLoadedArtifacts(store, keys) == [k \in keys |-> store[k]]

IdleTurn ==
    [pc |-> "idle", n |-> 0, store |-> [k \in {} |-> 0],
     existing |-> {}, saved |-> {}, returned |-> FALSE,
     artifacts |-> [k \in {} |-> 0]]

\* run_root_agent is called for the next user message of the session: the key
\* set is read before the run.
TurnBegin ==
    /\ turn.pc = "idle"
    /\ turn.n < MaxTurns
    /\ turn' = [turn EXCEPT
            !.pc = "running", !.n = @ + 1,
            !.existing = ListArtifactKeys(turn.store),
            !.saved = {}, !.returned = FALSE,
            !.artifacts = [k \in {} |-> 0]]
    /\ UNCHANGED <<pipeVars, connVars, live, supSessions, t2s>>

\* A tool of the run saves an artifact: tool_context.save_artifact(filename, part)
\* appends a version, which is the one load_artifact returns from then on.  The
\* bytes are identified by the turn that saved them.
TurnSave(filename) ==
    /\ turn.pc = "running"
    /\ turn' = [turn EXCEPT
            !.store = (filename :> turn.n) @@ @,
            !.saved = @ \cup {filename}]
    /\ UNCHANGED <<pipeVars, connVars, live, supSessions, t2s>>

\* runner.run_async is exhausted: the key set is read again, the difference is
\* loaded and returned under "artifacts".
TurnEnd ==
    /\ turn.pc = "running"
    /\ LET new_artifact_keys ==
            NewArtifactKeys(ListArtifactKeys(turn.store), turn.existing)
       IN  turn' = [turn EXCEPT
                !.pc = "idle", !.returned = TRUE,
                !.artifacts = NewlyLoadedArtifacts(turn.store, new_artifact_keys)]
    /\ UNCHANGED <<pipeVars, connVars, live, supSessions, t2s>>

\* An exception leaves runner.run_async: run_root_agent raises and returns
\* nothing; what the tools saved stays in the store.
TurnRaises ==
    /\ turn.pc = "running"
    /\ turn' = [turn EXCEPT !.pc = "idle"]
    /\ UNCHANGED <<pipeVars, connVars, live, supSessions, t2s>>

-----------------------------------------------------------------------------
(* The generate-review loop: rough_work_scripts/6_text2sql_custom_agent3.py *)

\* LoopAgent(name="SqlRefinementLoop", max_iterations=3, ...)
max_iterations == 3

Iterations == 1..max_iterations

NO_FEEDBACK == "No feedback yet. This is the first attempt."
COULD_NOT_GENERATE == "I could not generate a correct SQL query after several attempts."
RESULT_HEADER == "Here is the result for your query:"

\* The JSON objects the generator and the reviewer are instructed to answer with.
CorrectReview == ("verdict" :> "correct") @@ ("feedback" :> "The query is correct.")
IncorrectReview(k) ==
    ("verdict" :> "incorrect") @@ ("feedback" :> ("Fix attempt " \o ToString(k)))
NoVerdictReview == ("feedback" :> "The query may be right.")
GeneratedObject(k) ==
    ("sql" :> ("SELECT " \o ToString(k))) @@ ("reasoning" :> "Selected a constant.")
NoSqlObject == ("reasoning" :> "No query is needed.")

JsonDicts ==
    {EmptyDict, CorrectReview, NoVerdictReview, NoSqlObject}
        \cup {IncorrectReview(k) : k \in Iterations}
        \cup {GeneratedObject(k) : k \in Iterations}

JsonKeys == <<"verdict", "feedback", "sql", "reasoning">>

RECURSIVE JsonMembers(_, _)
JsonMembers(d, keys) ==
    IF keys = <<>> THEN ""
    ELSE LET k == Head(keys)
             rest == JsonMembers(d, Tail(keys))
         IN  IF k \notin DOMAIN d THEN rest
             ELSE "\"" \o k \o "\": \"" \o d[k] \o "\""
                    \o (IF rest = "" THEN "" ELSE ", " \o rest)

\* json.dumps of a dict of strings.
JsonDumps(d) == "{" \o JsonMembers(d, JsonKeys) \o "}"

\* An answer that puts words around the object is not JSON.
Worded(d) == "Here is the JSON: " \o JsonDumps(d)
JsonArray == "[]"

\* json.loads: the object a text is the JSON of; a JSON array parses to a list,
\* and any other text raises JSONDecodeError.
JsonLoads(s) ==
    IF \E d \in JsonDicts : JsonDumps(d) = s
    THEN [ok |-> TRUE, isDict |-> TRUE, obj |-> CHOOSE d \in JsonDicts : JsonDumps(d) = s]
    ELSE IF s = JsonArray
    THEN [ok |-> TRUE, isDict |-> FALSE, obj |-> EmptyDict]
    ELSE [ok |-> FALSE, isDict |-> FALSE, obj |-> EmptyDict]

\* dict.get(key, default) and state.get(key, default).
GetOr(d, k, default) == IF k \in DOMAIN d THEN d[k] ELSE default

\* call_agent: state={"user_question": user_input, "db_schema": db_schema}
T2SInitialState == ("user_question" :> "How many employees?") @@ ("db_schema" :> "CREATE TABLE")

\* The final texts of SqlGenerator and SqlReviewer in iteration k; None: the final
\* response has no content and the output_key is not written.
GeneratorTexts(k) == {JsonDumps(GeneratedObject(k)), JsonDumps(NoSqlObject),
                      Worded(GeneratedObject(k)), None}
ReviewerTexts(k) == {JsonDumps(CorrectReview), JsonDumps(IncorrectReview(k)),
                     JsonDumps(NoVerdictReview), Worded(CorrectReview), JsonArray, None}

\* The state keys the instructions of SqlGenerator and SqlReviewer name.
GeneratorPlaceholders == {"db_schema", "user_question", "feedback"}
ReviewerPlaceholders == {"db_schema", "user_question", "generated_sql_and_reasoning"}

\* "PREVIOUS ATTEMPT FEEDBACK (if any): {feedback}": the instruction is filled in
\* from state["feedback"].
PreviousFeedback(state) == state["feedback"]

\* SqlReviewStopChecker: escalate iff the review parses and its verdict is
\* "correct"; JSONDecodeError and AttributeError are caught.
ShouldStop(state) ==
    LET review == JsonLoads(GetOr(state, "review_result", "{}"))
    IN  IF ~review.ok \/ ~review.isDict THEN FALSE
        ELSE GetOr(review.obj, "verdict", "incorrect") = "correct"

\* TextToSqlAgent after the loop: json.loads(state.get("review_result", "{}"))
\* and final_review.get("verdict") != "correct", neither inside a try.
VerdictGate(state) ==
    LET final_review == JsonLoads(GetOr(state, "review_result", "{}"))
    IN  IF ~final_review.ok THEN "JSONDecodeError"
        ELSE IF ~final_review.isDict THEN "AttributeError"
        ELSE IF Get(final_review.obj, "verdict") # "correct" THEN "give_up"
        ELSE "execute"

IdleT2S ==
    [pc |-> "idle", times_looped |-> 0, state |-> T2SInitialState,
     fed |-> <<>>, reviews |-> <<>>, executed |-> FALSE,
     final |-> "", error |-> ""]

\* TextToSqlAgent._run_async_impl starts: state["feedback"] is set and the
\* refinement loop is entered.
T2S_Start ==
    /\ t2s.pc = "idle"
    /\ t2s' = [t2s EXCEPT !.pc = "generator",
                          !.state = ("feedback" :> NO_FEEDBACK) @@ @]
    /\ UNCHANGED <<pipeVars, connVars, live, supSessions, turn>>

\* SqlGenerator: its instruction is filled in from the state, and its final
\* text is written to generated_sql_and_reasoning.
T2S_Generator ==
    /\ t2s.pc = "generator"
    /\ \E text \in GeneratorTexts(t2s.times_looped + 1), raises \in BOOLEAN :
        IF ~(GeneratorPlaceholders \subseteq DOMAIN t2s.state)
        THEN t2s' = [t2s EXCEPT !.pc = "raised", !.error = "KeyError"]
        ELSE IF raises
        THEN t2s' = [t2s EXCEPT !.pc = "raised", !.error = "model call failed",
                                !.fed = Append(@, PreviousFeedback(t2s.state))]
        ELSE t2s' = [t2s EXCEPT
                !.pc = "reviewer",
                !.fed = Append(@, PreviousFeedback(t2s.state)),
                !.state = IF text = None THEN @
                          ELSE ("generated_sql_and_reasoning" :> text) @@ @]
    /\ UNCHANGED <<pipeVars, connVars, live, supSessions, turn>>

\* SqlReviewer: its final text is written to review_result.
T2S_Reviewer ==
    /\ t2s.pc = "reviewer"
    /\ \E text \in ReviewerTexts(t2s.times_looped + 1) :
        IF ~(ReviewerPlaceholders \subseteq DOMAIN t2s.state)
        THEN t2s' = [t2s EXCEPT !.pc = "raised", !.error = "KeyError"]
        ELSE t2s' = [t2s EXCEPT
                !.pc = "checker",
                !.reviews = Append(@, text),
                !.state = IF text = None THEN @
                          ELSE ("review_result" :> text) @@ @]
    /\ UNCHANGED <<pipeVars, connVars, live, supSessions, turn>>

\* StopChecker and the LoopAgent around it: an escalating event ends the loop,
\* and otherwise the next iteration starts unless max_iterations were run.
T2S_StopChecker ==
    /\ t2s.pc = "checker"
    /\ t2s' = [t2s EXCEPT
            !.times_looped = IF ShouldStop(t2s.state) THEN @ ELSE @ + 1,
            !.pc = IF ShouldStop(t2s.state) \/ t2s.times_looped + 1 >= max_iterations
                   THEN "after_loop" ELSE "generator"]
    /\ UNCHANGED <<pipeVars, connVars, live, supSessions, turn>>

\* The rest of TextToSqlAgent._run_async_impl: the verdict check, SqlExecutorAgent
\* and the final response.  cursor.execute fails for a missing "sql" and may fail
\* for any query; the executor catches that and records the failure.
T2S_Finish ==
    /\ t2s.pc = "after_loop"
    /\ \E fails \in BOOLEAN :
        LET gate == VerdictGate(t2s.state)
            final_obj == JsonLoads(GetOr(t2s.state, "generated_sql_and_reasoning", "{}"))
            sql_to_run == Get(final_obj.obj, "sql")
        IN  IF gate \in {"JSONDecodeError", "AttributeError"}
            THEN t2s' = [t2s EXCEPT !.pc = "raised", !.error = gate]
            ELSE IF gate = "give_up"
            THEN t2s' = [t2s EXCEPT !.pc = "done", !.final = COULD_NOT_GENERATE]
            ELSE IF ~final_obj.ok
            THEN t2s' = [t2s EXCEPT !.pc = "raised", !.error = "JSONDecodeError"]
            ELSE t2s' = [t2s EXCEPT
                    !.pc = "done",
                    !.executed = (sql_to_run # None),
                    !.state = ("query_execution_result" :>
                                    (IF sql_to_run = None \/ fails
                                     THEN "SQL execution failed" ELSE "rows")) @@ @,
                    !.final = RESULT_HEADER]
    /\ UNCHANGED <<pipeVars, connVars, live, supSessions, turn>>

-----------------------------------------------------------------------------
(* The idle state of the concurrent connections, the chat turns and the loop *)

AuxIdle ==
    /\ live = [c \in Conns |-> IdleLive]
    /\ supSessions = [k \in {} |-> NewSession(0)]
    /\ turn = IdleTurn
    /\ t2s = IdleT2S

-----------------------------------------------------------------------------
(* Specifications of the wrappers *)

PipeInit ==
    /\ sessions = [k \in {} |-> EmptyDict]
    /\ artifacts = [k \in {} |-> EmptyDict]
    /\ nextUuid = 0
    /\ run = [r \in Runs |-> IdleRun]
    /\ created = <<>>
    /\ writers = {}
    /\ http = NoResponse

IdleHandler ==
    [pc |-> "off", tasks |-> {}, done |-> {}, startFailed |-> FALSE, logged |-> FALSE]

ConnIdle ==
    /\ handler = IdleHandler
    /\ a2c = IdleA2C
    /\ c2a = IdleC2A
    /\ wsock = [closeCode |-> 0]
    /\ queue = <<>>

InitPipeline == PipeInit /\ ConnIdle /\ AuxIdle

\* One invocation, every outcome of every sub-agent, and the artifact endpoint.
NextPipeline ==
    \/ \E w \in Wrappers : Invoke(1, w, DataSets)
    \/ CreateSession(1)
    \/ initialize_state_var(1)
    \/ RunStage(1, StageOutcomes, BOOLEAN, Images)
    \/ ReadBack(1)
    \/ get_artifact

SpecPipeline == InitPipeline /\ [][NextPipeline]_vars

\* The outcomes explored when several invocations interleave.
RunsOutcomes == {"text", "raise"}

\* NumRuns invocations interleaved at their await points.
NextRuns ==
    \/ \E r \in Runs, w \in Wrappers : Invoke(r, w, {"rows"})
    \/ \E r \in Runs : CreateSession(r)
    \/ \E r \in Runs : initialize_state_var(r)
    \/ \E r \in Runs : RunStage(r, RunsOutcomes, {TRUE}, {<<137, 80, r>>})
    \/ \E r \in Runs : ReadBack(r)

SpecRuns == InitPipeline /\ [][NextRuns]_vars

-----------------------------------------------------------------------------
(* Specification of one websocket connection *)

\* The connection is accepted; the wrappers are idle.
InitConn ==
    /\ PipeInit
    /\ handler = [IdleHandler EXCEPT !.pc = "start"]
    /\ a2c = IdleA2C
    /\ c2a = IdleC2A
    /\ wsock = [closeCode |-> 0]
    /\ queue = <<>>
    /\ AuxIdle

NextConn ==
    \/ StartSession
    \/ HandlerWake
    \/ HandlerGather
    \/ HandlerInspect
    \/ HandlerExcept
    \/ A2C_Event
    \/ A2C_StreamEnds
    \/ A2C_Send
    \/ A2C_ErrSend
    \/ A2C_Cancelled
    \/ C2A_Receive
    \/ C2A_Disconnect
    \/ C2A_Send
    \/ C2A_ErrSend
    \/ C2A_Cancelled

SpecConn == InitConn /\ [][NextConn]_vars

-----------------------------------------------------------------------------
(* Specification of the end of a connection *)

MaxShutdownInputs == 1   \* events and client messages before the connection ends

\* Live events that send no frame or three, and client messages without audio.
ShutdownEvents == {ev \in Events : Len(EventFrames(ev)) \in {0, 3}}
ShutdownFrames == {fr \in ClientFrames : fr.b64 = <<>>}

NextShutdown ==
    \/ StartSession
    \/ HandlerWake
    \/ HandlerGather
    \/ HandlerInspect
    \/ HandlerExcept
    \/ A2C_EventOf(ShutdownEvents, MaxShutdownInputs)
    \/ A2C_StreamEnds
    \/ A2C_Send
    \/ A2C_ErrSend
    \/ A2C_Cancelled
    \/ C2A_ReceiveOf(ShutdownFrames, MaxShutdownInputs)
    \/ C2A_Disconnect
    \/ C2A_Send
    \/ C2A_ErrSend
    \/ C2A_Cancelled

\* The event loop runs every task that can run: the handler resumes when its wait
\* or gather completes, a cancelled task is resumed with the CancelledError, and a
\* send_text that was started completes or fails.  Whether the client or the agent
\* ever delivers anything more is not assumed.
FairConn ==
    /\ WF_vars(StartSession)
    /\ WF_vars(HandlerWake)
    /\ WF_vars(HandlerGather)
    /\ WF_vars(HandlerInspect)
    /\ WF_vars(HandlerExcept)
    /\ WF_vars(A2C_Send)
    /\ WF_vars(A2C_ErrSend)
    /\ WF_vars(A2C_Cancelled)
    /\ WF_vars(C2A_Send)
    /\ WF_vars(C2A_ErrSend)
    /\ WF_vars(C2A_Cancelled)

SpecShutdown == InitConn /\ [][NextShutdown]_vars /\ FairConn

-----------------------------------------------------------------------------
(* Specification of concurrent websocket connections *)

NextLive ==
    \/ \E c \in Conns, session_id \in SessionIds : LiveStart(c, session_id)
    \/ \E c \in Conns : LiveReceive(c)
    \/ \E c \in Conns : LiveAgentStep(c)
    \/ \E c \in Conns : LiveSend(c)
    \/ \E c \in Conns : LiveClose(c)

SpecLive == InitPipeline /\ [][NextLive]_vars

-----------------------------------------------------------------------------
(* Specification of the chat turns of run_root_agent *)

NextTurns ==
    \/ TurnBegin
    \/ \E filename \in TurnFiles : TurnSave(filename)
    \/ TurnEnd
    \/ TurnRaises

SpecTurns == InitPipeline /\ [][NextTurns]_vars

-----------------------------------------------------------------------------
(* Specification of one TextToSqlAgent invocation *)

NextText2Sql ==
    \/ T2S_Start
    \/ T2S_Generator
    \/ T2S_Reviewer
    \/ T2S_StopChecker
    \/ T2S_Finish

SpecText2Sql == InitPipeline /\ [][NextText2Sql]_vars

-----------------------------------------------------------------------------
(* Claims about the wrappers *)

\* The stage-output entries of a wrapper's result: <<result key, output_key, sentinel>>.
StageFields(w) ==
    CASE w = SQL -> {<<"understanding", "query_understanding_output", "Not generated.">>,
                     <<"generated_sql", "query_generation_output", "Not generated.">>,
                     <<"reviewed_sql", "query_review_rewrite_output", "Not generated.">>,
                     <<"execution_result", "query_execution_output", "Not executed.">>}
      [] w = VIS -> {<<"chart_type_info", "chart_type_output", "Not generated.">>,
                     <<"generated_plotly_code", "plotly_code_output", "Not generated.">>,
                     <<"execution_summary", "execution_summary", "Not executed.">>}
      [] OTHER -> {}

Returned(r) == run[r].pc = "returned"
IsError(r) == "error" \in DOMAIN run[r].result

\* A stage-output entry is the stage's non-empty output, else the sentinel.
FieldOk(r, f) ==
    /\ f[1] \in DOMAIN run[r].result
    /\ run[r].result[f[1]] # None
    /\ IF f[2] \in DOMAIN run[r].wrote /\ run[r].wrote[f[2]] # ""
       THEN run[r].result[f[1]] = run[r].wrote[f[2]]
       ELSE run[r].result[f[1]] = f[3]

\* C1 as stated: every invocation of execute_sql_pipeline or
\* execute_visualization_pipeline returns a result in which each stage-output
\* field is present and is the stage's output or the sentinel, never None.
C1_EveryInvocationHasStageFields ==
    \A r \in Runs : Returned(r) =>
        \A f \in StageFields(run[r].w) : FieldOk(r, f)

\* C1 amended: an invocation that returns without an 'error' entry (the
\* GOOGLE_API_KEY is set and the run did not raise) has each stage-output field
\* present, equal to the stage's non-empty output and otherwise to the sentinel,
\* never None; an invocation that returns an 'error' entry has no stage field.
C1_StageFieldsOfNormalResult ==
    \A r \in Runs : Returned(r) =>
        IF IsError(r)
        THEN \A f \in StageFields(run[r].w) : f[1] \notin DOMAIN run[r].result
        ELSE \A f \in StageFields(run[r].w) : FieldOk(r, f)

\* C1 witness: a returned SQL run whose stages wrote text, an empty value and nothing.
C1_Witness ==
    /\ Returned(1) /\ run[1].w = SQL /\ ~IsError(1)
    /\ Get(run[1].wrote, "query_understanding_output") = StageText("query_understanding_output")
    /\ Get(run[1].wrote, "query_generation_output") = ""
    /\ "query_execution_output" \notin DOMAIN run[1].wrote
    /\ run[1].result["understanding"] = StageText("query_understanding_output")
    /\ run[1].result["generated_sql"] = "Not generated."
    /\ run[1].result["execution_result"] = "Not executed."

\* C2: the session ids passed to create_session are pairwise distinct, and every
\* key of the session state an invocation uses was written by that invocation.
C2_SessionIsolation ==
    /\ \A i, j \in 1..Len(created) : i # j => created[i] # created[j]
    /\ \A r, q \in Runs : (r # q /\ run[r].sid # "") => run[r].sid # run[q].sid
    /\ \A r \in Runs : run[r].sid # "" =>
          \A x \in writers : (x[1] = APP_NAME(run[r].w) /\ x[2] = run[r].sid) => x[4] = r

\* C2 witness: the same wrapper called twice with the same input, both returned.
C2_Witness ==
    /\ Returned(1) /\ Returned(2) /\ ~IsError(1) /\ ~IsError(2)
    /\ run[1].w = SQL /\ run[2].w = SQL /\ run[1].query = run[2].query
    /\ run[1].sid # run[2].sid

ThisArtifact(r) == ArtifactKey(APP_NAME(run[r].w), USER_ID, run[r].sid, ArtifactFile(run[r].w))

\* The success half of C3: the filename is reported only for a loadable artifact,
\* with its stored byte length.
ReportsOnlyStored(r) ==
    ("artifact_saved" \in DOMAIN run[r].result /\ run[r].result["artifact_saved"] # "No") =>
        /\ run[r].result["artifact_saved"] = ArtifactFile(run[r].w)
        /\ ThisArtifact(r) \in DOMAIN artifacts
        /\ run[r].result["artifact_size_bytes"] = Len(artifacts[ThisArtifact(r)].data)

ReportsAbsent(r) ==
    /\ "artifact_saved" \in DOMAIN run[r].result
    /\ run[r].result["artifact_saved"] = "No"
    /\ run[r].result["artifact_size_bytes"] = 0

\* C3 as stated: the filename and size are reported only for a loadable artifact,
\* and a run that wrote no artifact reports artifact_saved = 'No' and size 0.
C3_AbsentAlwaysReportedNo ==
    \A r \in Runs : (Returned(r) /\ ChecksArtifact(run[r].w)) =>
        /\ ReportsOnlyStored(r)
        /\ ~run[r].saved => ReportsAbsent(r)

\* C3 amended: the same, for a run that wrote no artifact and returns its normal
\* result; a wrapper that returns an 'error' entry reports no artifact entry at all.
C3_ArtifactReport ==
    \A r \in Runs : (Returned(r) /\ ChecksArtifact(run[r].w)) =>
        /\ ReportsOnlyStored(r)
        /\ (~run[r].saved /\ ~IsError(r)) => ReportsAbsent(r)
        /\ (run[r].saved /\ ~IsError(r)) =>
              /\ run[r].result["artifact_saved"] = ArtifactFile(run[r].w)
              /\ run[r].result["artifact_size_bytes"] = Len(run[r].image)
        /\ IsError(r) => "artifact_saved" \notin DOMAIN run[r].result

\* C3 witness: the executor's text is written, no artifact was saved, 'No' is reported.
C3_Witness ==
    /\ Returned(1) /\ run[1].w = VIS /\ ~IsError(1)
    /\ Get(run[1].wrote, "execution_summary") = StageText("execution_summary")
    /\ ~run[1].saved
    /\ run[1].result["artifact_saved"] = "No"

\* The response get_artifact owes a request, given the artifact store.
ResponseOk(resp, store) ==
    LET mapped == resp.app \in DOMAIN USER_ID_MAP
        key == ArtifactKey(resp.app, USER_ID, resp.sid, resp.filename)
    IN  /\ ~mapped => resp.status = 404
        /\ (mapped /\ resp.raised) => resp.status = 500
        /\ (mapped /\ ~resp.raised /\ key \notin DOMAIN store) => resp.status = 404
        /\ (mapped /\ ~resp.raised /\ key \in DOMAIN store) =>
              /\ resp.status = 200
              /\ resp.body = store[key].data
              /\ resp.media_type = store[key].mime_type

\* C10: every response of GET /artifacts is 404 for an unmapped app or a missing
\* artifact, 500 when the load raises, and else the stored bytes and mime type.
C10_GetArtifact == [][http' # http => ResponseOk(http', artifacts)]_vars

\* C10 witness: a stored two-byte artifact was served.
C10_Witness == http.status = 200 /\ http.body = <<137, 80>> /\ http.media_type = "image/png"

-----------------------------------------------------------------------------
(* Claims about the outbound pump *)

\* The current event has been handled to the end of the loop body.
EventHandled == a2c.evdone /\ ~a2c.ev.none
StatusEvent(ev) == ev.turn_complete \/ ev.interrupted

\* A tool result that carries an artifact reference.
CarriesArtifact(resp) ==
    LET v == resp.response
    IN  /\ v.parses /\ v.isdict
        /\ {"artifact_saved", "session_id", "app_name"} \subseteq DOMAIN v.d
        /\ v.d["artifact_saved"] \notin {"", None, "No"}
        /\ v.d["session_id"] \notin {"", None}
        /\ v.d["app_name"] \notin {"", None}

ArtifactUrl(resp) ==
    LET d == resp.response.d
    IN  "/artifacts/" \o d["app_name"] \o "/" \o d["session_id"] \o "/" \o d["artifact_saved"]

IsArtifactFrame(f) == "mime_type" \in DOMAIN f /\ f.mime_type = "image/png"

\* The artifact frames sent for the event are, in order, the URLs of the tool
\* results of the event that carry an artifact reference.
ArtifactFramesMatch ==
    LET carrying == SelectSeq(a2c.ev.responses, CarriesArtifact)
        frames == SelectSeq(a2c.out, IsArtifactFrame)
    IN  /\ Len(frames) = Len(carrying)
        /\ \A i \in 1..Len(frames) : frames[i].data = ArtifactUrl(carrying[i])

\* C4 as stated: for every tool result of every live event that carries an artifact
\* reference exactly one frame with its URL is sent, and none for any other tool
\* result.
C4_EveryToolResult == EventHandled => ArtifactFramesMatch

\* C4: in a live event that is not a turn-status event, every tool result that carries
\* an artifact reference (dict or JSON text of a dict, artifact_saved non-empty and
\* not 'No', session_id and app_name non-empty) gets exactly one frame whose data is
\* /artifacts/{app_name}/{session_id}/{artifact_saved}; no other tool result gets an
\* artifact frame.
C4_ArtifactFrames == (EventHandled /\ ~StatusEvent(a2c.ev)) => ArtifactFramesMatch

\* C4 witness: an event with three tool results, two of them carrying an artifact
\* reference, was handled and two artifact frames were sent.
C4_Witness ==
    /\ EventHandled /\ ~StatusEvent(a2c.ev)
    /\ Len(a2c.ev.responses) = 3
    /\ Len(SelectSeq(a2c.out, IsArtifactFrame)) = 2

\* C5: for a live event with turn_complete or interrupted set exactly one frame is
\* sent, holding only the turn_complete and interrupted fields; no content,
\* tool-call or artifact frame is sent for it.
C5_TurnStatusFrame ==
    (EventHandled /\ StatusEvent(a2c.ev)) =>
        /\ Len(a2c.out) = 1
        /\ DOMAIN a2c.out[1] = {"turn_complete", "interrupted"}
        /\ a2c.out[1].turn_complete = a2c.ev.turn_complete
        /\ a2c.out[1].interrupted = a2c.ev.interrupted

\* C5 witness: an interrupted event that also has a text part was handled.
C5_Witness ==
    /\ EventHandled /\ a2c.ev.interrupted /\ ~a2c.ev.turn_complete
    /\ Len(a2c.ev.parts) > 0
    /\ Len(a2c.out) = 1

HasText(part) == part.text \notin {"", None}
IsSpokenTextFrame(f) ==
    "mime_type" \in DOMAIN f /\ f.mime_type = "text/plain" /\ f.role # "system"

\* C6: in a live event that is not a turn-status event and whose content role is
\* 'user', every part with non-empty text gets exactly one text/plain frame with role
\* 'user_transcription' whose data is that text.
C6_UserTranscription ==
    (EventHandled /\ ~StatusEvent(a2c.ev) /\ a2c.ev.role = "user") =>
        LET texts == SelectSeq(a2c.ev.parts, HasText)
            frames == SelectSeq(a2c.out, IsSpokenTextFrame)
        IN  /\ Len(frames) = Len(texts)
            /\ \A i \in 1..Len(frames) :
                  /\ frames[i].role = "user_transcription"
                  /\ frames[i].data = texts[i].text

\* C6 witness: a user event with two text parts that also carry inline data was
\* handled: three frames, two of them transcriptions.
C6_Witness ==
    /\ EventHandled /\ ~StatusEvent(a2c.ev) /\ a2c.ev.role = "user"
    /\ Len(SelectSeq(a2c.ev.parts, HasText)) = 2
    /\ Len(a2c.out) = 3

-----------------------------------------------------------------------------
(* Claims about the inbound pump and the connection handler *)

\* The last frame received is a well-formed message of an unsupported mime type.
UnsupportedFrame ==
    /\ c2a.n > 0 /\ c2a.fr.json_ok
    /\ {"mime_type", "data"} \subseteq c2a.fr.keys
    /\ c2a.fr.mime_type \notin {"text/plain", "audio/pcm"}

\* C7: for an inbound frame whose mime type is neither text/plain nor audio/pcm the
\* pump sends exactly one error frame with role 'system' (unless that send itself
\* fails or is cancelled), forwards nothing to the request queue, and stays in its
\* receive loop: it ends only by a later disconnect or cancellation.
C7_UnsupportedMime ==
    (UnsupportedFrame /\ c2a.pc # "send"
        /\ c2a.sendres \notin {"disconnect", "error", "cancelled"}) =>
        /\ Len(c2a.out) = 1
        /\ DOMAIN c2a.out[1] = {"error", "role"}
        /\ c2a.out[1].role = "system"
        /\ c2a.fwd = 0
        /\ c2a.pc = "recv" \/ (c2a.pc = "done" /\ c2a.raised \in {"disconnect", "cancelled"})

\* C7 witness: a forwarded frame, then a video/mp4 frame answered by one error frame,
\* and the pump is back at receive_text.
C7_Witness ==
    /\ UnsupportedFrame /\ c2a.fr.mime_type = "video/mp4"
    /\ c2a.n = 2 /\ Len(queue) = 1
    /\ Len(c2a.out) = 1 /\ c2a.pc = "recv"

PumpRunning(t) == Task(t).pc \notin {"off", "done"}

\* C8: a connection whose session started has exactly two pump tasks; once one has
\* ended the handler cancels every task that had not, and the handler does not
\* return while a pump is running.
C8_TwoPumps ==
    /\ handler.tasks = (IF handler.pc \in {"start", "except"} \/ handler.startFailed
                        THEN {} ELSE TaskNames)
    /\ \A t \in TaskNames : PumpRunning(t) => t \in handler.tasks
    /\ handler.pc \in {"gather", "inspect", "returned"} /\ ~handler.startFailed =>
          /\ handler.done # {}
          /\ \A t \in TaskNames \ handler.done : Task(t).cancelReq
    /\ handler.pc = "returned" => \A t \in TaskNames : ~PumpRunning(t)

\* C8 witness: the handler returned after one pump ended and the other was cancelled.
C8_Witness ==
    /\ handler.pc = "returned" /\ handler.tasks = TaskNames
    /\ \E t \in TaskNames : t \notin handler.done /\ Task(t).raised = "cancelled"

-----------------------------------------------------------------------------
(* Claims about the stages of a pipeline run *)

\* Invocation r created its session and has returned.
Ran(r) == Returned(r) /\ run[r].sid # ""
NumStages(r) == Len(OutputKeys(run[r].w))
ErrorOf(r) == IF IsError(r) THEN run[r].result["error"] ELSE ""
ToolFailed(r) == run[r].tool \in {"error", "failed"}

\* A stage of the run failed: its tool failed, its model call raised, or its output
\* is empty or was not written.
StageFailed(r) ==
    /\ Ran(r)
    /\ \/ ToolFailed(r)
       \/ IsError(r)
       \/ \E i \in 1..run[r].stage : Falsy(Get(run[r].wrote, OutputKeys(run[r].w)[i]))

C12_PlaceholdersPresent ==
    \A r \in Runs :
        run[r].pc = "stage" =>
            Placeholders(run[r].w)[run[r].stage + 1]
                \subseteq DOMAIN sessions[SessionKey(run[r].w, run[r].sid)]

C15_ErrorEventsDistinguishable ==
    \A r \in Runs : (Returned(r) /\ run[r].errors > 0) => IsError(r)

-----------------------------------------------------------------------------
(* Claims about the supervisor's tool calls *)

\* The user turns that count as an explicit confirmation.
Affirmations == {"yes", "go ahead"}

\* C16 as stated: call_poster_agent and call_email_agent are invoked only after an
\* affirmative user turn has been put on the connection's request queue.
C16_ConfirmationGate ==
    \A r \in Runs :
        (run[r].pc # "idle" /\ run[r].w \in {POSTER, EMAIL}) =>
            \E i \in 1..Len(queue) :
                /\ queue[i].kind = "content" /\ queue[i].role = "user"
                /\ queue[i].text \in Affirmations

-----------------------------------------------------------------------------
(* Claims about the frames of both pumps *)

WellFormed(fr) == fr.json_ok /\ {"mime_type", "data"} \subseteq fr.keys

\* The queue grew by exactly one message in this step.
Enqueued == Len(queue') = Len(queue) + 1 /\ SubSeq(queue', 1, Len(queue)) = queue
LastEnqueued == queue'[Len(queue')]

\* C17: every text/plain frame puts exactly one content message with the frame's role
\* ('user' when it has none) and text at the end of the request queue, every
\* audio/pcm frame of valid base64 exactly one realtime blob with the decoded bytes;
\* nothing else changes the queue, so the messages are in the order of the frames.
C17_InboundEnqueue ==
    [][IF c2a'.n = c2a.n + 1
       THEN LET fr == c2a'.fr
            IN  CASE WellFormed(fr) /\ fr.mime_type = "text/plain" ->
                       /\ Enqueued
                       /\ LastEnqueued.kind = "content"
                       /\ LastEnqueued.role = (IF "role" \in fr.keys THEN fr.role ELSE "user")
                       /\ LastEnqueued.text = fr.data
                  [] WellFormed(fr) /\ fr.mime_type = "audio/pcm" /\ b64decode(fr.b64).ok ->
                       /\ Enqueued
                       /\ LastEnqueued.kind = "realtime"
                       /\ LastEnqueued.mime_type = "audio/pcm"
                       /\ LastEnqueued.data = b64decode(fr.b64).data
                  [] OTHER -> queue' = queue
       ELSE queue' = queue]_vars

\* C17 witness: a text frame with role 'system', then an audio frame, are on the queue
\* in that order.
C17_Witness ==
    /\ Len(queue) = 2
    /\ queue[1].kind = "content" /\ queue[1].role = "system" /\ queue[1].text = "note"
    /\ queue[2].kind = "realtime" /\ queue[2].data = <<77, 97>>

IsAudioFrame(f) == "mime_type" \in DOMAIN f /\ f.mime_type = "audio/pcm"
HasPcm(part) ==
    part.mime_type \in {"audio/pcm", "audio/pcm;rate=24000"} /\ Len(part.data) > 0

\* C18: base64-decoding the data of the audio frame sent for a non-empty inline
\* audio/pcm part yields the bytes of the part, and the inbound pump's decoding of a
\* frame that holds the encoding of bytes b puts exactly b on the request queue.
C18_Base64RoundTrip ==
    /\ (EventHandled /\ ~StatusEvent(a2c.ev)) =>
          LET pcm == SelectSeq(a2c.ev.parts, HasPcm)
              frames == SelectSeq(a2c.out, IsAudioFrame)
          IN  /\ Len(frames) = Len(pcm)
              /\ \A i \in 1..Len(frames) :
                    /\ b64decode(frames[i].data).ok
                    /\ b64decode(frames[i].data).data = pcm[i].data
    /\ \A b \in AudioBytes :
          (c2a.n > 0 /\ Len(b) > 0 /\ WellFormed(c2a.fr)
              /\ c2a.fr.mime_type = "audio/pcm" /\ c2a.fr.b64 = b64encode(b)) =>
              /\ c2a.fwd = 1
              /\ queue[Len(queue)].kind = "realtime"
              /\ queue[Len(queue)].data = b

\* C18 witness: a four-byte audio part was sent as one frame of eight base64
\* characters, and an inbound audio frame was decoded onto the queue.
C18_Witness ==
    /\ EventHandled /\ Len(a2c.ev.parts) = 1
    /\ a2c.ev.parts[1].data = <<255, 0, 170, 16>>
    /\ Len(a2c.out) = 1 /\ Len(a2c.out[1].data) = 8
    /\ c2a.fwd = 1 /\ c2a.fr.mime_type = "audio/pcm"
    /\ queue[Len(queue)].data = <<77, 97>>

IsToolCallFrame(f) ==
    "mime_type" \in DOMAIN f /\ f.mime_type = "text/plain" /\ f.role = "system"

\* C19: for a live event that is not a turn-status event, the text/plain frames with
\* role 'system' are, in order, one per function call of the event, each naming the
\* tool and its arguments.
C19_ToolCallFrames ==
    (EventHandled /\ ~StatusEvent(a2c.ev)) =>
        LET frames == SelectSeq(a2c.out, IsToolCallFrame)
        IN  /\ Len(frames) = Len(a2c.ev.calls)
            /\ \A i \in 1..Len(frames) :
                  frames[i].data = "Tool Call: " \o a2c.ev.calls[i].name
                                   \o ", Args: " \o a2c.ev.calls[i].args

\* C19 witness: an event with two function calls and a text part was handled.
C19_Witness ==
    /\ EventHandled /\ Len(a2c.ev.calls) = 2
    /\ Len(SelectSeq(a2c.out, IsToolCallFrame)) = 2
    /\ Len(a2c.out) = 3

\* C20: for the parts of a live event that is not a turn-status event: with content
\* role 'model' or none, each non-empty text yields one text/plain frame with role
\* 'model'; with a role other than 'user', 'model' or none, no text frame; each
\* inline audio/pcm part with non-empty bytes yields one audio/pcm frame, and one
\* with empty bytes or another mime type none.
C20_ContentParts ==
    (EventHandled /\ ~StatusEvent(a2c.ev)) =>
        LET texts == SelectSeq(a2c.ev.parts, HasText)
            spoken == SelectSeq(a2c.out, IsSpokenTextFrame)
            audio == SelectSeq(a2c.out, IsAudioFrame)
        IN  /\ a2c.ev.role \in {"model", None} =>
                  /\ Len(spoken) = Len(texts)
                  /\ \A i \in 1..Len(spoken) :
                        spoken[i].role = "model" /\ spoken[i].data = texts[i].text
            /\ a2c.ev.role \notin {"user", "model", None} => Len(spoken) = 0
            /\ Len(audio) = Len(SelectSeq(a2c.ev.parts, HasPcm))
            /\ \A i \in 1..Len(audio) : audio[i].role = "model"

\* C20 witness: a model event with two text parts, one of which also carries audio,
\* was handled: text, audio, text.
C20_Witness ==
    /\ EventHandled /\ a2c.ev.role = "model"
    /\ Len(SelectSeq(a2c.ev.parts, HasText)) = 2
    /\ Len(SelectSeq(a2c.out, IsAudioFrame)) = 1
    /\ Len(a2c.out) = 3

-----------------------------------------------------------------------------
(* C21: concurrent connections are isolated (SpecLive) *)

Started(c) == live[c].pc \in {"open", "closed"}
OwnItem(c, item) == item.conn = c
DistinctSession(c) == \A d \in Conns \ {c} : live[d].sid # live[c].sid

\* C21: of two connections with distinct session ids, the frames received on one
\* are on its own queue only, the frames sent on its socket come from its own event
\* stream only, and its supervisor session is written for it alone, in every
\* interleaving of the pumps and runners of the connections.
C21_ConnectionsIsolated ==
    \A c \in Conns :
        Started(c) =>
            /\ \A i \in DOMAIN live[c].queue : OwnItem(c, live[c].queue[i])
            /\ \A i \in DOMAIN live[c].events :
                    live[c].events[i].stream = c /\ OwnItem(c, live[c].events[i].item)
            /\ \A i \in DOMAIN live[c].sent :
                    /\ live[c].sent[i].socket = c
                    /\ live[c].sent[i].event.stream = c
                    /\ OwnItem(c, live[c].sent[i].event.item)
            /\ DistinctSession(c) =>
                    /\ live[c].key \in DOMAIN supSessions
                    /\ supSessions[live[c].key].creator = c
                    /\ \A i \in DOMAIN supSessions[live[c].key].events :
                            supSessions[live[c].key].events[i].by = c

\* C21 witness: two connections with distinct session ids are open, each has
\* received frames, had them consumed by its runner and sent a frame.
C21_Witness ==
    /\ live[1].pc = "open" /\ live[2].pc = "open"
    /\ live[1].sid # live[2].sid
    /\ live[1].sent # <<>> /\ live[2].sent # <<>>
    /\ Len(supSessions[live[1].key].events) = MaxLiveFrames
    /\ Len(supSessions[live[2].key].events) > 0

-----------------------------------------------------------------------------
(* C22: the artifacts of a chat turn (SpecTurns) *)

\* C22 as stated: the artifacts a turn returns are exactly those saved during the
\* turn, each with the bytes saved in this turn.
C22_TurnArtifactsExact ==
    turn.returned =>
        /\ DOMAIN turn.artifacts = turn.saved
        /\ \A k \in DOMAIN turn.artifacts : turn.artifacts[k] = turn.n

-----------------------------------------------------------------------------
(* C23, C24: the refinement loop of TextToSqlAgent (SpecText2Sql) *)

\* The refinement loop has ended and the rest of the agent has run.
LoopEnded ==
    \/ t2s.pc = "done"
    \/ t2s.pc = "raised" /\ t2s.error \in {"JSONDecodeError", "AttributeError"}

\* The verdict of the review held in state, None when there is none to read.
VerdictInState ==
    LET review == JsonLoads(GetOr(t2s.state, "review_result", "{}"))
    IN  IF review.ok /\ review.isDict THEN Get(review.obj, "verdict") ELSE None

\* C23 as stated: the executor runs only for the verdict 'correct', and in every
\* other case the agent gives the 'could not generate' response, executes no SQL
\* and does not write query_execution_result.
C23_ExecutorGate ==
    /\ t2s.executed => VerdictInState = "correct"
    /\ (LoopEnded /\ VerdictInState # "correct") =>
            /\ t2s.final = COULD_NOT_GENERATE
            /\ ~t2s.executed
            /\ "query_execution_result" \notin DOMAIN t2s.state

\* The feedback of the review of iteration k, None when the reviewer gave none.
ReviewFeedback(k) ==
    LET text == t2s.reviews[k]
        review == IF text = None THEN JsonLoads("") ELSE JsonLoads(text)
    IN  IF review.ok /\ review.isDict THEN Get(review.obj, "feedback") ELSE None

\* C24 as stated: the generator's instruction carries 'No feedback yet' in the
\* first iteration, and in iteration k+1 the feedback of the review of iteration k.
C24_FeedbackPassedOn ==
    \A k \in DOMAIN t2s.fed :
        IF k = 1 THEN t2s.fed[k] = NO_FEEDBACK
        ELSE ReviewFeedback(k - 1) # None => t2s.fed[k] = ReviewFeedback(k - 1)

-----------------------------------------------------------------------------
(* C25: a saved artifact reaches the client (SpecPipeline) *)

\* The frames the outbound pump sends for the tool result of invocation r.
RelayedFrames(r) == ResponseFrames(FunctionResponse(run[r].w, DictResponse(run[r].result)))

\* C25 as stated: for every visualization or poster run that saved its artifact
\* (and returned its normal result), the outbound pump sends exactly one artifact
\* frame for the run's result, and a GET of that frame's URL returns the bytes that
\* were saved.
C25_SavedArtifactServed ==
    \A r \in Runs :
        (Returned(r) /\ ~IsError(r) /\ run[r].w \in {VIS, POSTER} /\ run[r].saved) =>
            /\ Len(RelayedFrames(r)) = 1
            /\ RelayedFrames(r)[1].data =
                    ImageUrl(APP_NAME(run[r].w), run[r].sid, ArtifactFile(run[r].w))
            /\ GetArtifactResponse(artifacts, APP_NAME(run[r].w), run[r].sid,
                                   ArtifactFile(run[r].w), FALSE)
                 = HttpResponse(200, run[r].image, "", "image/png")

-----------------------------------------------------------------------------
(* C26: the artifacts of different runs (SpecRuns) *)

\* C26: whatever the interleaving of the invocations, the artifact stored for the
\* session of an invocation that saved one holds the bytes that invocation saved,
\* and so does the response of GET /artifacts for that session.
C26_ArtifactsKept ==
    \A r \in Runs :
        run[r].saved =>
            /\ ThisArtifact(r) \in DOMAIN artifacts
            /\ artifacts[ThisArtifact(r)].data = run[r].image
            /\ GetArtifactResponse(artifacts, APP_NAME(run[r].w), run[r].sid,
                                   ArtifactFile(run[r].w), FALSE).body = run[r].image

\* C26 witness: two invocations of the same wrapper have both saved their artifact,
\* the second after the first.
C26_Witness ==
    /\ run[1].saved /\ run[2].saved
    /\ run[1].w = run[2].w
    /\ run[1].image # run[2].image
    /\ Returned(1) /\ Returned(2)

-----------------------------------------------------------------------------
(* C27: the chart tool (SpecPipeline) *)

\* C27: a call of execute_plotly_code_and_get_image_bytes either returns 'success'
\* and has saved plot.png for the session of the run, or returns 'error' and has
\* left the artifact store as it was; it never raises.
C27_PlotlyTool ==
    [][\A r \in Runs :
          (run[r].pc = "stage" /\ run[r].w = VIS /\ run'[r].tool # "") =>
              \/ /\ run'[r].tool = "success"
                 /\ ThisArtifact(r) \in DOMAIN artifacts'
                 /\ artifacts'[ThisArtifact(r)].data = run'[r].image
                 /\ artifacts'[ThisArtifact(r)].mime_type = "image/png"
              \/ /\ run'[r].tool = "error"
                 /\ artifacts' = artifacts
                 /\ ~run'[r].saved]_vars

\* C27 witness: the tool has failed in a run that had data, nothing is stored for
\* the run's session and the wrapper has returned its normal result.
C27_Witness ==
    /\ Ran(1) /\ run[1].w = VIS /\ run[1].tool = "error"
    /\ run[1].data = "rows"
    /\ ~IsError(1)
    /\ ThisArtifact(1) \notin DOMAIN artifacts
    /\ run[1].result["artifact_saved"] = "No"

-----------------------------------------------------------------------------
(* C28: an inbound frame that cannot be processed (SpecConn) *)

\* The last message received is not JSON, lacks mime_type or data, or is audio/pcm
\* whose data b64decode rejects.
Unprocessable(fr) ==
    \/ ~fr.json_ok
    \/ ~({"mime_type", "data"} \subseteq fr.keys)
    \/ fr.mime_type = "audio/pcm" /\ ~b64decode(fr.b64).ok

\* C28: after such a frame nothing was put on the request queue for it, the
\* exception was logged, one error frame is attempted (sent, failed or cut short by
\* a cancellation) and the inbound pump ends without receiving again; the handler
\* then cancels the outbound pump if it still runs, waits for it and returns
\* without closing the socket with 1011.
C28_BadFrame ==
    (c2a.n > 0 /\ Unprocessable(c2a.fr)) =>
        /\ c2a.fwd = 0 /\ c2a.out = <<>>
        /\ c2a.raised = "error" /\ c2a.logged
        /\ c2a.pc \in {"errsend", "done"}
        /\ c2a.pc = "done" <=> c2a.errFrame \in {"sent", "failed", "cancelled"}
        /\ handler.pc \in {"gather", "inspect", "returned"} =>
                a2c.cancelReq \/ "a2c" \in handler.done
        /\ handler.pc = "returned" =>
                /\ a2c.pc = "done" /\ c2a.pc = "done"
                /\ wsock.closeCode = 0 /\ ~handler.logged

\* C28 witness: an audio frame with undecodable data ended the inbound pump after
\* its error frame was sent, the outbound pump was cancelled and the handler
\* returned.
C28_Witness ==
    /\ c2a.n > 0 /\ c2a.fr.json_ok /\ c2a.fr.mime_type = "audio/pcm"
    /\ Unprocessable(c2a.fr)
    /\ c2a.errFrame = "sent"
    /\ a2c.raised = "cancelled"
    /\ handler.pc = "returned"

-----------------------------------------------------------------------------
(* C29: the order of the outbound frames (SpecConn) *)

FrameRank(f) == IF IsArtifactFrame(f) THEN 1 ELSE IF IsToolCallFrame(f) THEN 2 ELSE 3
IsPartFrame(f) == FrameRank(f) = 3

\* The text frame and the audio frame a part is due, in that order.
PartDue(role, part) ==
    (IF HasText(part) /\ role \in {"user", "model", None}
     THEN <<[mime_type |-> "text/plain", data |-> part.text]>> ELSE <<>>)
    \o (IF HasPcm(part)
        THEN <<[mime_type |-> "audio/pcm", data |-> part.data]>> ELSE <<>>)

FrameData(f) == IF f.mime_type = "audio/pcm" THEN b64decode(f.data).data ELSE f.data

\* The frames sent for the current event are in the order artifact frames, tool
\* call notices, then part by part the text frame and the audio frame.
InEventOrder ==
    (a2c.n > 0 /\ ~a2c.ev.none /\ ~StatusEvent(a2c.ev)) =>
        LET sent == a2c.out
            parts == SelectSeq(sent, IsPartFrame)
            due == Flatten([i \in 1..Len(a2c.ev.parts) |->
                                PartDue(a2c.ev.role, a2c.ev.parts[i])])
        IN  /\ \A i, j \in 1..Len(sent) : i < j => FrameRank(sent[i]) <= FrameRank(sent[j])
            /\ Len(parts) <= Len(due)
            /\ a2c.evdone => Len(parts) = Len(due)
            /\ \A i \in 1..Len(parts) :
                    /\ parts[i].mime_type = due[i].mime_type
                    /\ FrameData(parts[i]) = due[i].data

\* The next event is taken only when every frame of the current one was sent, and
\* a frame is only ever added after the frames already sent.
EventByEvent ==
    /\ a2c'.n # a2c.n => (a2c.pc = "recv" /\ a2c.pending = <<>> /\ a2c'.n = a2c.n + 1)
    /\ (a2c'.n = a2c.n /\ a2c'.out # a2c.out) =>
            /\ Len(a2c'.out) = Len(a2c.out) + 1
            /\ SubSeq(a2c'.out, 1, Len(a2c.out)) = a2c.out
            /\ a2c'.out[Len(a2c'.out)] = Head(a2c.pending)

\* C29: the frames of event k are all sent before event k+1 is taken, and within
\* an event the order is artifact frames, tool-call notices, then for each content
\* part in order its text frame followed by its audio frame.
C29_FrameOrder == []InEventOrder /\ [][EventByEvent]_vars

\* C29 witness: an event with a tool result carrying an artifact, a tool call and
\* two parts, the first with text and audio, has been sent in full.
C29_Witness ==
    /\ EventHandled /\ ~StatusEvent(a2c.ev)
    /\ Len(a2c.ev.responses) = 1 /\ Len(a2c.ev.calls) = 1 /\ Len(a2c.ev.parts) = 2
    /\ Len(a2c.out) = 5
    /\ IsArtifactFrame(a2c.out[1]) /\ IsToolCallFrame(a2c.out[2])
    /\ IsSpokenTextFrame(a2c.out[3]) /\ IsAudioFrame(a2c.out[4])
    /\ IsSpokenTextFrame(a2c.out[5])

-----------------------------------------------------------------------------
(* C30: the handler returns once a pump has ended (SpecShutdown) *)

\* C30: from every state in which a pump task has ended, the handler reaches its
\* return: the other task is cancelled and ends, also when the cancellation meets
\* it in the send of an error frame, and the gather completes.
C30_HandlerReturns == (\E t \in TaskNames : TaskDone(t)) ~> (handler.pc = "returned")

\* C30 witness: the outbound pump was cancelled while sending its error frame, and
\* the handler has returned.
C30_Witness ==
    /\ handler.pc = "returned"
    /\ a2c.errFrame = "cancelled"
    /\ c2a.pc = "done" /\ a2c.pc = "done"

====
